---- MODULE Spec2Model ----
(***************************************************************************)
(* Model of the CANopen client of can-socket-rs (crate canopen-tokio):     *)
(* the SDO upload / download state machines talking to an arbitrary SDO    *)
(* server over a raw CAN socket, and the PDO configuration sequence        *)
(* against an object dictionary of a remote device; of the frame router    *)
(* of crate can-socket; and of the NMT command of crate canopen-socket.    *)
(*                                                                         *)
(* A u8 is a number in 0..255.  A u32 is a record [hi, lo] of its two      *)
(* 16-bit halves, so that bit 31 and the byte order of                     *)
(* to_le_bytes / to_be_bytes / from_le_bytes are modelled explicitly.      *)
(***************************************************************************)
EXTENDS Integers, Sequences, FiniteSets, TLC

(***************************************************************************)
(* Bounds of the model.                                                    *)
(***************************************************************************)
\* The server stops answering after this many segment requests of a transfer.
MaxSegments == 2
\* Number of mapping entries in the largest PDO configuration that is tried.
MaxMappings == 2
\* Number of results (frames or errors) the router's socket delivers.
MaxWire == 2
\* Number of frames that arrive while send_nmt_command waits.
MaxHeartbeats == 2
\* Number of refinements applied to a filter before it is tested.
MaxRefinements == 2

(***************************************************************************)
(* State.  The SDO transfer, the PDO configuration, the router, the NMT    *)
(* command and the SYNC command are separate machines; each specification  *)
(* runs one and leaves the others parked.                                  *)
(***************************************************************************)
\* State of the SDO transfer.
VARIABLES
    op,         \* "upload" or "download": the call being made
    pc,         \* the await point the call is suspended at
    rx,         \* receive queue of the socket (at most one frame)
    sent,       \* frames handed to socket.send, in order, with the outcome of the send
    buf,        \* the caller's upload buffer
    len,        \* upload: the total length advertised by the server
    total_len,  \* upload: bytes received so far
    toggle,     \* the toggle of the outstanding segment
    dl_data,    \* download: the payload
    chunk,      \* download: index of the outstanding chunk
    result      \* the value returned by the call

sdoVars == << op, pc, rx, sent, buf, len, total_len, toggle, dl_data, chunk, result >>

\* State of the PDO configuration.
VARIABLES
    kind,               \* "rpdo" or "tpdo"
    config,             \* the configuration passed to configure_rpdo / configure_tpdo
    dev,                \* the device's objects for this PDO
    ppc,                \* the SDO operation the call is about to make
    cob_id,             \* the COB-ID word read by enable_rpdo / enable_tpdo
    valid_subindices,   \* the highest subindex read from subindex 0
    map_i,              \* the loop index of configure_pdo_mapping
    sdo_log,            \* SDO operations made so far
    presult             \* the value returned by the call

pdoVars == << kind, config, dev, ppc, cob_id, valid_subindices, map_i, sdo_log, presult >>

\* State of the router and of the tasks that use it.
VARIABLES
    wire,           \* what the socket returns to successive reads, in kernel order
    nread,          \* number of results read from the socket so far
    subscriptions,  \* RouterInner::subscriptions
    routed,         \* the results passed to route_frame so far, in dispatch order
    chan,           \* the delivery channel of each task's subscription
    task,           \* per task: the call it makes and where that call is
    got             \* per task: the values its calls returned, in order

routerVars == << wire, nread, subscriptions, routed, chan, task, got >>

\* State of send_nmt_command.
VARIABLES
    nmt_command, \* the NmtCommand being sent
    npc,        \* the await point the call is suspended at
    nrx,        \* receive queue of the socket, oldest first
    nsent,      \* frames handed to socket.send, with the outcome of the send
    nseen,      \* frames returned by socket.recv so far
    nresult     \* the value returned by the call

nmtVars == << nmt_command, npc, nrx, nsent, nseen, nresult >>

\* State of send_sync.
VARIABLES
    counter,     \* the Option<NonZeroU8> passed to send_sync
    sync_sent,   \* frames handed to socket.send, with the outcome of the send
    sync_result  \* the value returned by the call

syncVars == << counter, sync_sent, sync_result >>

\* State of a CanFilter being built and tested.
VARIABLES
    built,      \* the id the filter was constructed from and the refinements applied
    can_filter, \* the filter: the kernel's can_filter { can_id, can_mask }
    tested      \* the last frame given to test() and what test() returned

filterVars == << built, can_filter, tested >>

\* State of a comparison of two CanId values.
VARIABLES
    lhs,        \* the CanId on the left of the comparison
    rhs,        \* the CanId on the right
    ordering    \* what lhs.cmp(&rhs) and lhs == rhs returned

idVars == << lhs, rhs, ordering >>

\* State of a CanFrame whose data length code is being set.
VARIABLES
    can_frame,  \* the kernel's struct can_frame: can_dlc, len8_dlc, data[8]
    dlc_result  \* the last data length code passed and the Result returned

frameVars == << can_frame, dlc_result >>

\* State of the file descriptor of a socket.
VARIABLES
    status_flags,  \* the file status flags of the descriptor (F_GETFL / F_SETFL)
    nb_result      \* the last argument of set_nonblocking and the Result returned

fdVars == << status_flags, nb_result >>

vars == << sdoVars, pdoVars, routerVars, nmtVars, syncVars, filterVars, idVars, frameVars, fdVars >>

\* What the actions of one machine leave alone.
notSdo == << filterVars, pdoVars, routerVars, nmtVars, syncVars, idVars, frameVars, fdVars >>

notPdo == << filterVars, sdoVars, routerVars, nmtVars, syncVars, idVars, frameVars, fdVars >>

notRouter == << filterVars, sdoVars, pdoVars, nmtVars, syncVars, idVars, frameVars, fdVars >>

notNmt == << filterVars, sdoVars, pdoVars, routerVars, syncVars, idVars, frameVars, fdVars >>

notSync == << sdoVars, pdoVars, routerVars, nmtVars, filterVars, idVars, frameVars, fdVars >>

notFilter == << sdoVars, pdoVars, routerVars, nmtVars, syncVars, idVars, frameVars, fdVars >>

notId == << sdoVars, pdoVars, routerVars, nmtVars, syncVars, filterVars, frameVars, fdVars >>

notFrame == << sdoVars, pdoVars, routerVars, nmtVars, syncVars, filterVars, idVars, fdVars >>

notFd == << sdoVars, pdoVars, routerVars, nmtVars, syncVars, filterVars, idVars, frameVars >>

\* The tasks that use the router.
Tasks == 1..2

\* No result held, no value.
None == [tag |-> "None"]

\* A task that has not called the router.
IdleTask ==
    [ mode |-> "none", pc |-> "idle", held |-> None, deadline |-> "none",
      filter |-> [can_id |-> [hi |-> 0, lo |-> 0], can_mask |-> [hi |-> 0, lo |-> 0]],
      registered |-> 0 ]

\* The router unused: no traffic, no subscription.
RouterParked ==
    /\ wire = << >>
    /\ nread = 0
    /\ subscriptions = << >>
    /\ routed = << >>
    /\ chan = [t \in Tasks |-> [queue |-> << >>, cap |-> 0, rx_open |-> FALSE]]
    /\ task = [t \in Tasks |-> IdleTask]
    /\ got = [t \in Tasks |-> << >>]

\* No NMT command being sent.
NmtParked ==
    /\ nmt_command = 1
    /\ npc = "done"
    /\ nrx = << >>
    /\ nsent = << >>
    /\ nseen = << >>
    /\ nresult = None

\* No SYNC being sent.
SyncParked ==
    /\ counter = None
    /\ sync_sent = << >>
    /\ sync_result = [tag |-> "Ok", val |-> 0]

\* No filter being built.
FilterParked ==
    /\ built = None
    /\ can_filter = None
    /\ tested = None

\* No ids being compared.
IdParked ==
    /\ lhs = None
    /\ rhs = None
    /\ ordering = None

\* No frame being modified.
FrameParked ==
    /\ can_frame = None
    /\ dlc_result = None

\* No socket open.
FdParked ==
    /\ status_flags = None
    /\ nb_result = None

(***************************************************************************)
(* Integer helpers.                                                        *)
(***************************************************************************)
Pow2(n) == 2 ^ n

Shr(x, n) == x \div Pow2(n)

Shl8(x, n) == (x * Pow2(n)) % 256

TestBit(x, n) == (x \div Pow2(n)) % 2 = 1

SetBit(x, n) == IF TestBit(x, n) THEN x ELSE x + Pow2(n)

ClearBit(x, n) == IF TestBit(x, n) THEN x - Pow2(n) ELSE x

U32(hi, lo) == [hi |-> hi, lo |-> lo]

\* u32::from_le_bytes
u32_from_le_bytes(b) == U32(b[3] + 256 * b[4], b[1] + 256 * b[2])

\* u32::to_le_bytes
u32_to_le_bytes(x) == << x.lo % 256, x.lo \div 256, x.hi % 256, x.hi \div 256 >>

\* u32::to_be_bytes
u32_to_be_bytes(x) == << x.hi \div 256, x.hi % 256, x.lo \div 256, x.lo % 256 >>

\* u16::to_le_bytes
u16_to_le_bytes(x) == << x % 256, x \div 256 >>

\* u16::to_be_bytes
u16_to_be_bytes(x) == << x \div 256, x % 256 >>

\* `x as usize` of a u32 (only applied to values below 2^31)
AsUsize(x) == x.hi * 65536 + x.lo

Min(a, b) == IF a < b THEN a ELSE b

\* Bitwise and / or of two naturals and of two u32.
RECURSIVE BitAnd(_, _)
BitAnd(a, b) ==
    IF a = 0 \/ b = 0 THEN 0
    ELSE (a % 2) * (b % 2) + 2 * BitAnd(a \div 2, b \div 2)

RECURSIVE BitOr(_, _)
BitOr(a, b) ==
    IF a = 0 THEN b
    ELSE IF b = 0 THEN a
    ELSE (IF a % 2 = 1 \/ b % 2 = 1 THEN 1 ELSE 0) + 2 * BitOr(a \div 2, b \div 2)

U32And(x, y) == U32(BitAnd(x.hi, y.hi), BitAnd(x.lo, y.lo))

U32Or(x, y) == U32(BitOr(x.hi, y.hi), BitOr(x.lo, y.lo))

(***************************************************************************)
(* sdo/mod.rs: commands, abort reasons.                                    *)
(***************************************************************************)
ClientCommand == [SegmentDownload |-> 0, InitiateDownload |-> 1, InitiateUpload |-> 2,
                  SegmentUpload |-> 3, AbortTransfer |-> 4]

ServerCommand == [SegmentUpload |-> 0, SegmentDownload |-> 1, InitiateUpload |-> 2,
                  InitiateDownload |-> 3, AbortTransfer |-> 4]

\* The discriminants of enum AbortReason, as <<high half, low half>>.
AbortReason == {
    U32(1283, 0), U32(1284, 0), U32(1284, 1), U32(1284, 2), U32(1284, 3),
    U32(1284, 4), U32(1284, 5), U32(1537, 0), U32(1537, 1), U32(1537, 2),
    U32(1538, 0), U32(1540, 65), U32(1540, 66), U32(1540, 67), U32(1540, 71),
    U32(1542, 0), U32(1543, 16), U32(1543, 18), U32(1543, 19), U32(1545, 17),
    U32(1545, 48), U32(1545, 49), U32(1545, 50), U32(1545, 54), U32(1546, 35),
    U32(2048, 0), U32(2048, 32), U32(2048, 33), U32(2048, 34), U32(2048, 35),
    U32(2048, 36) }

\* AbortReason::GeneralError = 0x0800_0000
GeneralError == U32(2048, 0)

\* AbortReason::SubIndexDoesNotExist = 0x0609_0011
SubIndexDoesNotExist == U32(1545, 17)

(***************************************************************************)
(* Frames.  A frame is [id, ext, rtr, data]; data is a sequence of bytes.  *)
(***************************************************************************)
\* CanFrame::new with a standard id
CanFrame_new(id, bytes) == [id |-> id, ext |-> FALSE, rtr |-> FALSE, data |-> bytes]

\* The arguments of the transfer: node 0x05, object 0x1008:00, SdoAddress::standard().
node_id == 5

object == [index |-> 4104, subindex |-> 0]

sdo == [command_address |-> 1536, response_address |-> 1408]

\* SdoAddress::command_id: command_address | node_id (node_id < 0x80 here)
command_id(address, node) == address.command_address + node

\* SdoAddress::response_id
response_id(address, node) == address.response_address + node

\* CanId::to_base(): an extended id converts when it is a valid base id
to_base(frame) == IF frame.id <= 2047 THEN [ok |-> TRUE, id |-> frame.id]
                  ELSE [ok |-> FALSE, id |-> 0]

\* The predicate of recv_new_by_can_id
recv_new_by_can_id_accepts(frame, can_id) ==
    /\ ~frame.rtr
    /\ to_base(frame) = [ok |-> TRUE, id |-> can_id]

(***************************************************************************)
(* Results.                                                                *)
(***************************************************************************)
NoResult == [tag |-> "None"]

Ok(v) == [tag |-> "Ok", val |-> v]

SendFailed == [tag |-> "SendFailed"]

RecvFailed == [tag |-> "RecvFailed"]

Timeout == [tag |-> "Timeout"]

NoExpeditedOrSizeFlag == [tag |-> "NoExpeditedOrSizeFlag"]

InvalidToggleFlag == [tag |-> "InvalidToggleFlag"]

WrongFrameSize(n) == [tag |-> "MalformedResponse", kind |-> "WrongFrameSize", n |-> n]

InvalidServerCommand(n) == [tag |-> "MalformedResponse", kind |-> "InvalidServerCommand", n |-> n]

UnexpectedResponse(expected, actual) ==
    [tag |-> "UnexpectedResponse", expected |-> expected, actual |-> actual]

\* TransferAborted { reason: Result<AbortReason, u32> }
TransferAborted(known, code) == [tag |-> "TransferAborted", known |-> known, code |-> code]

WrongDataCount(expected, actual) ==
    [tag |-> "WrongDataCount", expected |-> expected, actual |-> actual]

BufferTooSmall(available, needed) ==
    [tag |-> "BufferTooSmall", available |-> available, needed |-> needed]

IsErr(r) == r.tag \notin {"Ok", "None"}

(***************************************************************************)
(* sdo/mod.rs: decoding of server responses, the abort frame.              *)
(***************************************************************************)
get_server_command(frame) ==
    IF frame.rtr THEN WrongFrameSize(0)
    ELSE IF Len(frame.data) # 8 THEN WrongFrameSize(Len(frame.data))
    ELSE IF Shr(frame.data[1], 5) > 4 THEN InvalidServerCommand(Shr(frame.data[1], 5))
    ELSE [tag |-> "Ok", command |-> Shr(frame.data[1], 5), data |-> frame.data]

\* Variant of check_server_command: the abort reason is read big-endian.
check_server_command_be(frame, expected) ==
    LET r == get_server_command(frame) IN
    IF r.tag # "Ok" THEN r
    ELSE IF r.command = expected THEN [tag |-> "Ok", data |-> r.data]
    ELSE IF r.command = ServerCommand.AbortTransfer
         THEN LET reason == U32(r.data[6] + 256 * r.data[5], r.data[8] + 256 * r.data[7])
              IN  TransferAborted(reason \in AbortReason, reason)
    ELSE UnexpectedResponse(expected, r.command)

check_server_command(frame, expected) ==
    LET r == get_server_command(frame) IN
    IF r.tag # "Ok" THEN r
    ELSE IF r.command = expected THEN [tag |-> "Ok", data |-> r.data]
    ELSE IF r.command = ServerCommand.AbortTransfer
         THEN LET reason == u32_from_le_bytes(SubSeq(r.data, 5, 8))
              IN  TransferAborted(reason \in AbortReason, reason)
    ELSE UnexpectedResponse(expected, r.command)

\* The frame built by send_abort_transfer_command
abort_transfer_frame(address, node, obj, reason) ==
    LET r == u32_to_be_bytes(reason)
        object_index == u16_to_be_bytes(obj.index)
    IN  CanFrame_new(command_id(address, node),
            << Shl8(ClientCommand.AbortTransfer, 5), object_index[1], object_index[2],
               obj.subindex, r[1], r[2], r[3], r[4] >>)

(***************************************************************************)
(* sdo/upload.rs: request frames and response parsers.                     *)
(***************************************************************************)
make_sdo_initiate_upload_request(node, address, obj) ==
    LET object_index == u16_to_le_bytes(obj.index)
    IN  CanFrame_new(command_id(address, node),
            << Shl8(ClientCommand.InitiateUpload, 5), object_index[1], object_index[2],
               obj.subindex, 0, 0, 0, 0 >>)

make_sdo_upload_segment_request(address, node, t) ==
    CanFrame_new(command_id(address, node),
        << Shl8(ClientCommand.SegmentUpload, 5) + (IF t THEN 16 ELSE 0),
           0, 0, 0, 0, 0, 0, 0 >>)

\* Variant of InitiateUploadResponse::parse: an expedited response always
\* carries 4 bytes.
InitiateUploadResponse_parse_four(frame) ==
    LET c == check_server_command(frame, ServerCommand.InitiateUpload) IN
    IF c.tag # "Ok" THEN c
    ELSE LET d == c.data
             expedited == TestBit(d[1], 1)
             size_set == TestBit(d[1], 0)
         IN  IF expedited
             THEN [tag |-> "Expedited", data |-> SubSeq(d, 5, 8)]
             ELSE IF ~size_set THEN NoExpeditedOrSizeFlag
             ELSE [tag |-> "Segmented", len |-> u32_from_le_bytes(SubSeq(d, 5, 8))]

InitiateUploadResponse_parse(frame) ==
    LET c == check_server_command(frame, ServerCommand.InitiateUpload) IN
    IF c.tag # "Ok" THEN c
    ELSE LET d == c.data
             n == Shr(d[1], 2) % 4
             expedited == TestBit(d[1], 1)
             size_set == TestBit(d[1], 0)
         IN  IF expedited
             THEN [tag |-> "Expedited",
                   data |-> SubSeq(d, 5, 4 + (IF size_set THEN 4 - n ELSE 4))]
             ELSE IF ~size_set THEN NoExpeditedOrSizeFlag
             ELSE [tag |-> "Segmented", len |-> u32_from_le_bytes(SubSeq(d, 5, 8))]

\* Variant of parse_segment_upload_response: the echoed toggle is not verified.
parse_segment_upload_response_no_toggle(frame, expected_toggle) ==
    LET c == check_server_command(frame, ServerCommand.SegmentUpload) IN
    IF c.tag # "Ok" THEN c
    ELSE [tag |-> "Ok", complete |-> TestBit(c.data[1], 0),
          data |-> SubSeq(c.data, 2, 1 + 7 - (Shr(c.data[1], 1) % 8))]

parse_segment_upload_response(frame, expected_toggle) ==
    LET c == check_server_command(frame, ServerCommand.SegmentUpload) IN
    IF c.tag # "Ok" THEN c
    ELSE LET d == c.data
             echoed == TestBit(d[1], 4)
             n == Shr(d[1], 1) % 8
             complete == TestBit(d[1], 0)
             length == 7 - n
         IN  IF echoed # expected_toggle THEN InvalidToggleFlag
             ELSE [tag |-> "Ok", complete |-> complete, data |-> SubSeq(d, 2, 1 + length)]

\* UploadBuffer::reserve.  A buffer is [fixed, cap, data]: Vec<u8> (fixed = FALSE)
\* always succeeds, FixedBuffer<N> needs N - written bytes of room.
reserve(b, needed) ==
    IF b.fixed /\ needed > b.cap - Len(b.data)
    THEN BufferTooSmall(b.cap - Len(b.data), needed)
    ELSE Ok(0)

\* UploadBuffer::append
append(b, d) == [b EXCEPT !.data = b.data \o d]

(***************************************************************************)
(* The SDO transfer: one call of sdo_upload or sdo_download against a      *)
(* server that may answer anything.                                        *)
(***************************************************************************)
\* Tails (bytes 1..7) the server puts after the command byte:
\* index 0x1008:00 + length 10, index + length 7, two runs of payload bytes,
\* an abort with SubIndexDoesNotExist, an abort with an unknown code.
ServerTails == {
    << 8, 16, 0, 10, 0, 0, 0 >>,
    << 8, 16, 0, 7, 0, 0, 0 >>,
    << 32, 33, 34, 35, 36, 37, 38 >>,
    << 39, 40, 41, 0, 0, 0, 0 >>,
    << 8, 16, 0, 17, 0, 9, 6 >>,
    << 8, 16, 0, 8, 0, 0, 0 >> }

\* Command bytes the server uses: segment upload responses (toggle, n, c)
\* carrying 7, 5, 3 or 0 data bytes; every initiate-upload response (n, e, s);
\* download acknowledgements with either toggle; abort; an invalid command.
ServerCommandBytes ==
    { 16 * t + 2 * n + c : t \in 0..1, n \in { 0, 2, 4, 7 }, c \in 0..1 }
    \cup { 64 + 4 * n + es : n \in 0..3, es \in 0..3 }
    \cup { 32, 48, 96, 128, 160 }

\* Frames that can arrive: 8-byte frames on the response id, the
\* initiate-upload responses with the unused bit 4 of byte 0 set, two short frames,
\* an RTR frame on the response id, a data frame with another id, and an
\* extended-format frame whose 29-bit id has the value of the response id.
\* The last frame is the expedited initiate-upload response of the node for
\* object 0x1018:01: the answer to an earlier upload that has timed out.
\* The frame after it is a segmented initiate-upload response that
\* advertises a length of 1 byte.
ServerFrames ==
    { CanFrame_new(response_id(sdo, node_id), << b >> \o t) :
        b \in ServerCommandBytes, t \in ServerTails }
    \cup { CanFrame_new(response_id(sdo, node_id), << 80 + x, 8, 16, 0, 39, 40, 41, 0 >>) :
               x \in 0..15 }
    \cup { CanFrame_new(response_id(sdo, node_id), << 128, 8, 16, 0 >>),
           CanFrame_new(response_id(sdo, node_id), << 96, 8, 16, 0 >>),
           [id |-> response_id(sdo, node_id), ext |-> FALSE, rtr |-> TRUE, data |-> << >>],
           CanFrame_new(1797, << 5 >>),
           [ id |-> response_id(sdo, node_id), ext |-> TRUE, rtr |-> FALSE,
             data |-> << 67, 8, 16, 0, 39, 40, 41, 42 >> ],
           CanFrame_new(response_id(sdo, node_id), << 67, 24, 16, 1, 17, 18, 19, 20 >>),
           CanFrame_new(response_id(sdo, node_id), << 65, 8, 16, 0, 1, 0, 0, 0 >>) }

UploadBuffers == { [fixed |-> FALSE, cap |-> 0, data |-> << >>],
                   [fixed |-> TRUE, cap |-> 2, data |-> << >>],
                   [fixed |-> TRUE, cap |-> 16, data |-> << >>] }

DownloadData == { << 1, 2 >>, << 1, 2, 3, 4 >>, << 1, 2, 3, 4, 5, 6, 7 >>,
                  << 1, 2, 3, 4, 5, 6, 7, 8, 9, 10 >>,
                  << 1, 2, 3, 4, 5, 6, 7, 8, 9, 10, 11, 12, 13, 14, 15 >> }

Waiting == { "initiate_upload", "segment_upload", "expedited_download",
             "initiate_download", "segment_download" }

Sent(frame, ok) == [frame |-> frame, ok |-> ok]

\* Segment frames handed to the socket so far (upload requests or download segments).
IsSegmentFrame(f) ==
    Shr(f.data[1], 5) \in { ClientCommand.SegmentUpload, ClientCommand.SegmentDownload }

SegmentFrames(log) == SelectSeq(log, LAMBDA e : IsSegmentFrame(e.frame))

SdoInit ==
    /\ op \in { "upload", "download" }
    /\ pc = "start"
    /\ rx = << >>
    /\ sent = << >>
    /\ buf \in (IF op = "upload" THEN UploadBuffers ELSE { [fixed |-> FALSE, cap |-> 0, data |-> << >>] })
    /\ len = 0
    /\ total_len = 0
    /\ toggle = FALSE
    /\ dl_data \in (IF op = "download" THEN DownloadData ELSE { << >> })
    /\ chunk = 0
    /\ result = NoResult

\* A frame arrives in the receive queue while the call waits for a response.
ServerRespond ==
    /\ pc \in Waiting
    /\ rx = << >>
    /\ Len(SegmentFrames(sent)) <= MaxSegments
    /\ \E f \in ServerFrames : rx' = << f >>
    /\ UNCHANGED << op, pc, sent, buf, len, total_len, toggle, dl_data, chunk, result >>
    /\ UNCHANGED notSdo

\* recv_new_filtered: a frame the predicate rejects is dropped, the loop goes on.
RecvSkip ==
    /\ pc \in Waiting
    /\ rx # << >>
    /\ ~recv_new_by_can_id_accepts(rx[1], response_id(sdo, node_id))
    /\ rx' = << >>
    /\ UNCHANGED << op, pc, sent, buf, len, total_len, toggle, dl_data, chunk, result >>
    /\ UNCHANGED notSdo

\* The tail of sdo_upload / sdo_download_segmented: on an error, send the abort
\* command (its own failure is dropped) and return the error.
ReturnWithAbort(log, e) ==
    /\ \E ok \in BOOLEAN :
          sent' = Append(log, Sent(abort_transfer_frame(sdo, node_id, object, GeneralError), ok))
    /\ result' = e
    /\ pc' = "done"

\* sdo_upload, up to the first receive.
UploadStart ==
    /\ op = "upload" /\ pc = "start"
    /\ \E ok \in BOOLEAN :
          /\ sent' = Append(sent, Sent(make_sdo_initiate_upload_request(node_id, sdo, object), ok))
          /\ IF ok THEN pc' = "initiate_upload" /\ result' = result
                   ELSE pc' = "done" /\ result' = SendFailed
    /\ UNCHANGED << op, rx, buf, len, total_len, toggle, dl_data, chunk >>
    /\ UNCHANGED notSdo

\* The head of the segment loop: send the segment request, then wait.
UploadSendSegment(t) ==
    \E ok \in BOOLEAN :
        LET log == Append(sent, Sent(make_sdo_upload_segment_request(sdo, node_id, t), ok)) IN
        IF ok THEN /\ sent' = log
                   /\ pc' = "segment_upload"
                   /\ result' = result
              ELSE ReturnWithAbort(log, SendFailed)

\* sdo_upload: the initiate response arrives.
UploadInitiateResponse ==
    /\ pc = "initiate_upload"
    /\ rx # << >>
    /\ recv_new_by_can_id_accepts(rx[1], response_id(sdo, node_id))
    /\ rx' = << >>
    /\ LET r == InitiateUploadResponse_parse(rx[1]) IN
       CASE r.tag = "Expedited" ->
                LET res == reserve(buf, Len(r.data)) IN
                IF IsErr(res)
                THEN /\ ReturnWithAbort(sent, res)
                     /\ UNCHANGED << buf, len, total_len, toggle >>
                ELSE /\ buf' = append(buf, r.data)
                     /\ result' = Ok(Len(r.data))
                     /\ pc' = "done"
                     /\ UNCHANGED << sent, len, total_len, toggle >>
         [] r.tag = "Segmented" ->
                LET res == reserve(buf, AsUsize(r.len)) IN
                IF IsErr(res)
                THEN /\ ReturnWithAbort(sent, res)
                     /\ UNCHANGED << buf, len, total_len, toggle >>
                ELSE /\ len' = AsUsize(r.len)
                     /\ total_len' = 0
                     /\ toggle' = FALSE
                     /\ UploadSendSegment(FALSE)
                     /\ UNCHANGED buf
         [] OTHER ->
                /\ ReturnWithAbort(sent, r)
                /\ UNCHANGED << buf, len, total_len, toggle >>
    /\ UNCHANGED << op, dl_data, chunk >>
    /\ UNCHANGED notSdo

\* Variant of SegmentOverflows: the length check is missing.
SegmentOverflows_unchecked(total, segment_len, advertised) == FALSE

\* The length check of the segment loop (upload.rs line 98).
SegmentOverflows(total, segment_len, advertised) == total + segment_len >= advertised

\* Variant of UploadNextToggle: the toggle is not flipped.
UploadNextToggle_stuck(t) == t

\* The toggle of the next segment request (upload.rs line 111).
UploadNextToggle(t) == ~t

\* sdo_upload: a segment response arrives.
UploadSegmentResponse ==
    /\ pc = "segment_upload"
    /\ rx # << >>
    /\ recv_new_by_can_id_accepts(rx[1], response_id(sdo, node_id))
    /\ rx' = << >>
    /\ LET r == parse_segment_upload_response(rx[1], toggle) IN
       IF r.tag # "Ok"
       THEN /\ ReturnWithAbort(sent, r)
            /\ UNCHANGED << buf, total_len, toggle >>
       ELSE IF SegmentOverflows(total_len, Len(r.data), len)
       THEN /\ ReturnWithAbort(sent, WrongDataCount(len, total_len + Len(r.data)))
            /\ UNCHANGED << buf, total_len, toggle >>
       ELSE /\ buf' = append(buf, r.data)
            /\ total_len' = total_len + Len(r.data)
            /\ IF r.complete
               THEN /\ toggle' = toggle
                    /\ IF total_len' # len
                       THEN ReturnWithAbort(sent, WrongDataCount(len, total_len'))
                       ELSE /\ result' = Ok(total_len')
                            /\ pc' = "done"
                            /\ sent' = sent
               ELSE /\ toggle' = UploadNextToggle(toggle)
                    /\ UploadSendSegment(UploadNextToggle(toggle))
    /\ UNCHANGED << op, len, dl_data, chunk >>
    /\ UNCHANGED notSdo

\* sdo_upload: the receive fails or times out.
UploadRecvError ==
    /\ pc \in { "initiate_upload", "segment_upload" }
    /\ rx = << >>
    /\ \E e \in { RecvFailed, Timeout } : ReturnWithAbort(sent, e)
    /\ UNCHANGED << op, rx, buf, len, total_len, toggle, dl_data, chunk >>
    /\ UNCHANGED notSdo

(***************************************************************************)
(* sdo/download.rs                                                         *)
(***************************************************************************)
\* data.get(i).copied().unwrap_or(0), for i counted from 0
GetOr0(d, i) == IF i < Len(d) THEN d[i + 1] ELSE 0

\* Variant of make_sdo_expedited_download_command: n is left 0.
make_sdo_expedited_download_command_n0(node, address, obj, d) ==
    LET object_index == u16_to_le_bytes(obj.index)
    IN  CanFrame_new(command_id(address, node),
            << Shl8(ClientCommand.InitiateDownload, 5) + 3,
               object_index[1], object_index[2], obj.subindex,
               GetOr0(d, 0), GetOr0(d, 1), GetOr0(d, 2), GetOr0(d, 3) >>)

make_sdo_expedited_download_command(node, address, obj, d) ==
    LET n == 4 - Len(d)
        object_index == u16_to_le_bytes(obj.index)
    IN  CanFrame_new(command_id(address, node),
            << Shl8(ClientCommand.InitiateDownload, 5) + Shl8(n, 2) + 3,
               object_index[1], object_index[2], obj.subindex,
               GetOr0(d, 0), GetOr0(d, 1), GetOr0(d, 2), GetOr0(d, 3) >>)

make_sdo_initiate_segmented_download_command(node, address, obj, length) ==
    LET l == u32_to_le_bytes(length)
        object_index == u16_to_le_bytes(obj.index)
    IN  CanFrame_new(command_id(address, node),
            << Shl8(ClientCommand.InitiateDownload, 5) + 1,
               object_index[1], object_index[2], obj.subindex,
               l[1], l[2], l[3], l[4] >>)

make_sdo_segment_download_command(node, address, t, complete, d) ==
    LET ccs == ClientCommand.SegmentDownload
        n == 7 - Len(d)
    IN  CanFrame_new(command_id(address, node),
            << Shl8(ccs, 5) + (IF t THEN 16 ELSE 0) + Shl8(n, 1) + (IF complete THEN 1 ELSE 0),
               GetOr0(d, 0), GetOr0(d, 1), GetOr0(d, 2), GetOr0(d, 3),
               GetOr0(d, 4), GetOr0(d, 5), GetOr0(d, 6) >>)

parse_segment_download_response(frame, expected_toggle) ==
    LET c == check_server_command(frame, ServerCommand.SegmentDownload) IN
    IF c.tag # "Ok" THEN c
    ELSE IF TestBit(c.data[1], 4) # expected_toggle THEN InvalidToggleFlag
    ELSE Ok(0)

\* Variant of chunk_count: one chunk more than the whole sevens.
chunk_count_whole_plus_one(d) == Len(d) \div 7 + 1

\* data.chunks(7): the number of chunks and the i-th chunk (i from 0)
chunk_count(d) == (Len(d) + 6) \div 7

chunks(d, i) == SubSeq(d, 7 * i + 1, Min(7 * i + 7, Len(d)))

\* The toggle of the i-th download segment (download.rs line 124).
DownloadToggle(i) == i % 2 = 1

\* sdo_download: dispatch on the length and send the first frame.
DownloadStart ==
    /\ op = "download" /\ pc = "start"
    /\ \E ok \in BOOLEAN :
          LET command == IF Len(dl_data) <= 4
                         THEN make_sdo_expedited_download_command(node_id, sdo, object, dl_data)
                         ELSE make_sdo_initiate_segmented_download_command(
                                  node_id, sdo, object, U32(0, Len(dl_data)))
          IN  /\ sent' = Append(sent, Sent(command, ok))
              /\ IF ok THEN /\ pc' = (IF Len(dl_data) <= 4 THEN "expedited_download"
                                                        ELSE "initiate_download")
                            /\ result' = result
                       ELSE /\ pc' = "done"
                            /\ result' = SendFailed
    /\ UNCHANGED << op, rx, buf, len, total_len, toggle, dl_data, chunk >>
    /\ UNCHANGED notSdo

\* sdo_download_expedited: the response arrives.
DownloadExpeditedResponse ==
    /\ pc = "expedited_download"
    /\ rx # << >>
    /\ recv_new_by_can_id_accepts(rx[1], response_id(sdo, node_id))
    /\ rx' = << >>
    /\ LET r == check_server_command(rx[1], ServerCommand.InitiateDownload) IN
       result' = (IF r.tag = "Ok" THEN Ok(0) ELSE r)
    /\ pc' = "done"
    /\ UNCHANGED << op, sent, buf, len, total_len, toggle, dl_data, chunk >>
    /\ UNCHANGED notSdo

\* One turn of the chunk loop: send chunk i, then wait for its response.
DownloadSendSegment(i) ==
    \E ok \in BOOLEAN :
        LET command == make_sdo_segment_download_command(
                           node_id, sdo, DownloadToggle(i), i + 1 = chunk_count(dl_data), chunks(dl_data, i))
            log == Append(sent, Sent(command, ok))
        IN  IF ok THEN /\ sent' = log
                       /\ pc' = "segment_download"
                       /\ result' = result
                  ELSE ReturnWithAbort(log, SendFailed)

\* sdo_download_segmented: the response to the initiate command arrives.
DownloadInitiateResponse ==
    /\ pc = "initiate_download"
    /\ rx # << >>
    /\ recv_new_by_can_id_accepts(rx[1], response_id(sdo, node_id))
    /\ rx' = << >>
    /\ LET r == check_server_command(rx[1], ServerCommand.InitiateDownload) IN
       IF r.tag # "Ok"
       THEN /\ result' = r
            /\ pc' = "done"
            /\ UNCHANGED << sent, chunk, toggle >>
       ELSE /\ chunk' = 0
            /\ toggle' = DownloadToggle(0)
            /\ DownloadSendSegment(0)
    /\ UNCHANGED << op, buf, len, total_len, dl_data >>
    /\ UNCHANGED notSdo

\* sdo_download_segmented: the response to a segment arrives.
DownloadSegmentResponse ==
    /\ pc = "segment_download"
    /\ rx # << >>
    /\ recv_new_by_can_id_accepts(rx[1], response_id(sdo, node_id))
    /\ rx' = << >>
    /\ LET r == parse_segment_download_response(rx[1], toggle) IN
       IF r.tag # "Ok"
       THEN /\ ReturnWithAbort(sent, r)
            /\ UNCHANGED << chunk, toggle >>
       ELSE IF chunk + 1 = chunk_count(dl_data)
       THEN /\ result' = Ok(0)
            /\ pc' = "done"
            /\ UNCHANGED << sent, chunk, toggle >>
       ELSE /\ chunk' = chunk + 1
            /\ toggle' = DownloadToggle(chunk + 1)
            /\ DownloadSendSegment(chunk + 1)
    /\ UNCHANGED << op, buf, len, total_len, dl_data >>
    /\ UNCHANGED notSdo

\* sdo_download: a receive fails or times out.  Only the chunk loop of
\* sdo_download_segmented is followed by the abort command.
DownloadRecvError ==
    /\ pc \in { "expedited_download", "initiate_download", "segment_download" }
    /\ rx = << >>
    /\ \E e \in { RecvFailed, Timeout } :
          IF pc = "segment_download"
          THEN ReturnWithAbort(sent, e)
          ELSE /\ result' = e
               /\ pc' = "done"
               /\ sent' = sent
    /\ UNCHANGED << op, rx, buf, len, total_len, toggle, dl_data, chunk >>
    /\ UNCHANGED notSdo

SdoNext ==
    \/ ServerRespond
    \/ RecvSkip
    \/ UploadStart
    \/ UploadInitiateResponse
    \/ UploadSegmentResponse
    \/ UploadRecvError
    \/ DownloadStart
    \/ DownloadExpeditedResponse
    \/ DownloadInitiateResponse
    \/ DownloadSegmentResponse
    \/ DownloadRecvError

\* The PDO machine parked: nothing is being configured.
PdoParked ==
    /\ kind = "rpdo"
    /\ config = [enabled |-> FALSE]
    /\ dev = [h |-> 2]
    /\ ppc = "done"
    /\ cob_id = U32(0, 0)
    /\ valid_subindices = 0
    /\ map_i = 0
    /\ sdo_log = << >>
    /\ presult = NoResult

SdoSpecInit == SdoInit /\ PdoParked /\ RouterParked /\ NmtParked /\ SyncParked /\ FilterParked /\ IdParked /\ FrameParked /\ FdParked

SdoSpec == SdoSpecInit /\ [][SdoNext]_vars

SdoTypeOK ==
    /\ pc \in Waiting \cup { "start", "done" }
    /\ Len(rx) <= 1
    /\ (pc = "done") = (result # NoResult)

(***************************************************************************)
(* Properties of the SDO transfer.                                         *)
(***************************************************************************)
\* The response at the head of the receive queue is one the call takes.
Accepted == rx # << >> /\ recv_new_by_can_id_accepts(rx[1], response_id(sdo, node_id))

\* An 8-byte response with the given command specifier is being taken.
ResponseWith(cs) == Accepted /\ Len(rx[1].data) = 8 /\ Shr(rx[1].data[1], 5) = cs

\* Payload of a segment upload response: data[1..8-n], n in bits 3:1.
SegmentPayload(d) == SubSeq(d, 2, 8 - (Shr(d[1], 1) % 8))

AbortFrames(log) ==
    SelectSeq(log, LAMBDA e : Shr(e.frame.data[1], 5) = ClientCommand.AbortTransfer)

\* C1: a segmented upload whose segments carry the expected toggle and sum to
\* exactly the advertised length, with c=1 on the last one, returns Ok(L) and
\* the buffer holds the payloads in order.
C1_ExactLengthUploadSucceeds ==
    [][ ( /\ pc = "segment_upload"
          /\ ResponseWith(ServerCommand.SegmentUpload)
          /\ TestBit(rx[1].data[1], 4) = toggle
          /\ TestBit(rx[1].data[1], 0)
          /\ total_len + Len(SegmentPayload(rx[1].data)) = len )
        => ( /\ result' = Ok(len)
             /\ buf'.data = buf.data \o SegmentPayload(rx[1].data) ) ]_sdoVars

\* C2: in a segmented upload the buffer never holds more than the advertised
\* length L, Ok is returned only with exactly L bytes received, and a server
\* that delivers more than L bytes, or completes with fewer, gets WrongDataCount.
C2_UploadNeverExceedsLength ==
    /\ [] ( (op = "upload" /\ SegmentFrames(sent) # << >>) =>
              /\ Len(buf.data) <= len
              /\ Len(buf.data) = total_len
              /\ (result.tag = "Ok" => total_len = len /\ result.val = len) )
    /\ [][ ( /\ pc = "segment_upload"
             /\ ResponseWith(ServerCommand.SegmentUpload)
             /\ TestBit(rx[1].data[1], 4) = toggle )
           => LET actual == total_len + Len(SegmentPayload(rx[1].data)) IN
              /\ actual > len => result' = WrongDataCount(len, actual) /\ buf' = buf
              /\ (actual < len /\ TestBit(rx[1].data[1], 0))
                     => result' = WrongDataCount(len, actual) ]_sdoVars

\* C2 witness: the server delivered more than the advertised length.
C2_Witness ==
    /\ op = "upload" /\ pc = "done"
    /\ result.tag = "WrongDataCount"
    /\ result.actual > result.expected
    /\ Len(buf.data) > 0

\* C3: the k-th segment frame handed to the socket (k from 0) carries toggle
\* bit k mod 2, in upload and in download.
C3_ToggleAlternatesFromZero ==
    \A k \in 1..Len(SegmentFrames(sent)) :
        TestBit(SegmentFrames(sent)[k].frame.data[1], 4) = ((k - 1) % 2 = 1)

\* C3 witness: an upload has sent three segment requests.
C3_Witness == op = "upload" /\ Len(SegmentFrames(sent)) >= 3

\* C4: a segment response whose toggle differs from the outstanding one ends
\* the transfer with InvalidToggleFlag; nothing is appended and no further
\* segment frame is sent.
C4_ToggleMismatchRejected ==
    [][ ( /\ \/ pc = "segment_upload" /\ ResponseWith(ServerCommand.SegmentUpload)
             \/ pc = "segment_download" /\ ResponseWith(ServerCommand.SegmentDownload)
          /\ TestBit(rx[1].data[1], 4) # toggle )
        => ( /\ result' = InvalidToggleFlag
             /\ pc' = "done"
             /\ buf' = buf
             /\ SegmentFrames(sent') = SegmentFrames(sent) ) ]_sdoVars

\* C4 witness: the second segment of an upload was answered with a repeated toggle.
C4_Witness ==
    /\ op = "upload" /\ result = InvalidToggleFlag
    /\ Len(buf.data) > 0
    /\ Len(SegmentFrames(sent)) = 2

\* C5: an upload that fails after the initiate request was sent has sent exactly
\* one abort frame, the last frame of the call: command specifier 4 on the
\* command id, carrying reason GeneralError (0x0800_0000, bytes 4..8 little-endian).
C5_UploadErrorSendsOneAbort ==
    (op = "upload" /\ pc = "done" /\ IsErr(result) /\ sent[1].ok) =>
        /\ Len(AbortFrames(sent)) = 1
        /\ LET f == sent[Len(sent)].frame IN
           /\ f.id = command_id(sdo, node_id)
           /\ Shr(f.data[1], 5) = ClientCommand.AbortTransfer
           /\ f.data[5] + 256 * f.data[6] = GeneralError.lo
           /\ f.data[7] + 256 * f.data[8] = GeneralError.hi

\* C6: a download that fails after its first request frame was sent has sent
\* an abort frame.
C6_DownloadErrorSendsAbort ==
    (op = "download" /\ pc = "done" /\ IsErr(result) /\ sent[1].ok) =>
        Len(AbortFrames(sent)) >= 1

\* C7: wherever the call waits, an 8-byte response with command specifier 4
\* ends it with TransferAborted carrying bytes 4..8 as a little-endian u32,
\* known or raw.
C7_ServerAbortSurfaced ==
    [][ (pc \in Waiting /\ ResponseWith(ServerCommand.AbortTransfer))
        => LET d == rx[1].data
               code == U32(d[7] + 256 * d[8], d[5] + 256 * d[6])
           IN  /\ result' = TransferAborted(code \in AbortReason, code)
               /\ pc' = "done"
               /\ buf' = buf ]_sdoVars

\* C7 witness: a download segment was answered with abort 0x0609_0011.
C7_Witness ==
    /\ op = "download"
    /\ Len(SegmentFrames(sent)) >= 1
    /\ result = TransferAborted(TRUE, SubIndexDoesNotExist)

(***************************************************************************)
(* pdo/write_config.rs: configure_rpdo / configure_tpdo against the        *)
(* communication and mapping objects of one PDO of a remote device.        *)
(* Every SDO upload or download is one step; it may fail, and a failed     *)
(* download may or may not have reached the object dictionary.             *)
(***************************************************************************)
\* PdoMapping::to_u32
PdoMapping_to_u32(m) == U32(m.object.index, m.object.subindex * 256 + m.bit_length)

\* The i-th entry of the configurations that are tried: 16 bits of object 0x6040+i, sub 0.
MappingEntry(i) == [object |-> [index |-> 24640 + i, subindex |-> 0], bit_length |-> 16]

Mappings == { [i \in 1..k |-> MappingEntry(i)] : k \in 0..MaxMappings }

\* CanId values: a standard id and an extended id (as a u32).
CobIds == { [ext |-> FALSE, id |-> U32(0, 389)], [ext |-> TRUE, id |-> U32(1, 9029)] }

\* PDO numbers that are tried: the first, the last valid one, the first invalid one.
PdoNumbers == { 0, 511, 512 }

Configs ==
    [ pdo : PdoNumbers, enabled : BOOLEAN, rtr_allowed : BOOLEAN, cob_id : CobIds, mode : {255},
      inhibit_time_100us : {0, 100}, timer_ms : {0, 50}, start_sync : {0, 1},
      mapping : Mappings ]

\* Device states before the call: PDO enabled or disabled, RTR allowed or not,
\* and the value the device returns for communication subindex 0 (a u32 the
\* code takes as it comes).
Devices ==
    [ h : 1..6,
      cob : { U32(0, 389), U32(32768, 389), U32(16384, 389) },
      mode : {254}, inhibit : {0}, timer : {0}, start_sync : {0},
      map_count : {1},
      map : { [i \in 1..(MaxMappings + 1) |-> U32(0, 0)] } ]

PdoError(tag, at) == [tag |-> tag, at |-> at]

\* Variant of communication_params_object: the PDO number is not added.
communication_params_object_first(k, pdo) ==
    IF pdo < 512 THEN Ok(IF k = "rpdo" THEN 5120 ELSE 6144)
    ELSE [tag |-> "InvalidPdoNumber", value |-> pdo]

\* rpdo_communication_params_object / tpdo_communication_params_object
communication_params_object(k, pdo) ==
    IF pdo < 512 THEN Ok((IF k = "rpdo" THEN 5120 ELSE 6144) + pdo)
    ELSE [tag |-> "InvalidPdoNumber", value |-> pdo]

\* rpdo_mapping_object / tpdo_mapping_object
mapping_object(k, pdo) ==
    IF pdo < 512 THEN Ok((IF k = "rpdo" THEN 5632 ELSE 6656) + pdo)
    ELSE [tag |-> "InvalidPdoNumber", value |-> pdo]

\* The index of the object an upload or download addresses.
ObjectOf(k, obj, pdo) ==
    IF obj = "comm" THEN communication_params_object(k, pdo).val
                    ELSE mapping_object(k, pdo).val

\* cob_id & !0x8000_0000 or cob_id | 0x8000_0000 (enable_rpdo / enable_tpdo)
EnableCobId_swapped(c, enabled) ==
    IF enabled THEN U32(SetBit(c.hi, 15), c.lo) ELSE U32(ClearBit(c.hi, 15), c.lo)

\* Variant of EnableCobId: the bits above the low half are not written back.
EnableCobId_flag_only(c, enabled) ==
    IF enabled THEN U32(0, c.lo) ELSE U32(32768, c.lo)

EnableCobId(c, enabled) ==
    IF enabled THEN U32(ClearBit(c.hi, 15), c.lo) ELSE U32(SetBit(c.hi, 15), c.lo)

\* Variant of ParamCobId: bit 31 is not kept set.
ParamCobId_enabled(k, params) ==
    LET c == IF params.cob_id.ext
             THEN U32(SetBit(params.cob_id.id.hi, 13), params.cob_id.id.lo)
             ELSE params.cob_id.id
    IN  IF k = "rpdo" THEN c
        ELSE IF params.rtr_allowed THEN U32(ClearBit(c.hi, 14), c.lo)
        ELSE U32(SetBit(c.hi, 14), c.lo)

\* The COB-ID word written by write_rpdo/tpdo_communication_parameters.
ParamCobId(k, params) ==
    LET c == IF params.cob_id.ext
             THEN U32(SetBit(SetBit(params.cob_id.id.hi, 13), 15), params.cob_id.id.lo)
             ELSE U32(SetBit(params.cob_id.id.hi, 15), params.cob_id.id.lo)
    IN  IF k = "rpdo" THEN c
        ELSE IF params.rtr_allowed THEN U32(ClearBit(c.hi, 14), c.lo)
        ELSE U32(SetBit(c.hi, 14), c.lo)

\* Variant of SupportError: no field is checked against the device's subindices.
SupportError_none(k, valid, params) == Ok(0)

\* The support checks of write_rpdo/tpdo_communication_parameters.
SupportError(k, valid, params) ==
    IF valid < 3 /\ params.inhibit_time_100us > 0 THEN [tag |-> "InhibitTimeNotSupported"]
    ELSE IF valid < 5 /\ params.timer_ms > 0
         THEN (IF k = "rpdo" THEN [tag |-> "DeadlineTimerNotSupported"]
                             ELSE [tag |-> "EventTimerNotSupported"])
    ELSE IF k = "tpdo" /\ valid < 6 /\ params.start_sync > 0
         THEN [tag |-> "StartSyncNotSupported"]
    ELSE Ok(0)

\* Variant of AfterMapping: the PDO is re-enabled whatever the configuration says.
AfterMapping_always(enabled) == "enable_read"

\* configure_rpdo / configure_tpdo after configure_pdo_mapping.
AfterMapping(enabled) == IF enabled THEN "enable_read" ELSE "done"

\* Variant of InitialFieldCount: the final count is written straight away.
InitialFieldCount_len(mappings) == Len(mappings)

\* configure_pdo_mapping: the field count written before the entries.
InitialFieldCount(mappings) == 0

\* What follows the mapping count being zeroed.
AfterMapZero(mapping) == IF Len(mapping) > 0 THEN "map_entry" ELSE "map_count"

\* The step after the download to communication subindex `sub`.
AfterCommWrite(k, valid, sub) ==
    IF sub < 3 /\ valid >= 3 THEN "write_inhibit"
    ELSE IF sub < 5 /\ valid >= 5 THEN "write_timer"
    ELSE IF sub < 6 /\ valid >= 6 /\ k = "tpdo" THEN "write_start_sync"
    ELSE "map_zero"

\* The object dictionary after a download.
DevWrite(d, obj, sub, val) ==
    IF obj = "map"
    THEN (IF sub = 0 THEN [d EXCEPT !.map_count = val] ELSE [d EXCEPT !.map[sub] = val])
    ELSE CASE sub = 1 -> [d EXCEPT !.cob = val]
           [] sub = 2 -> [d EXCEPT !.mode = val]
           [] sub = 3 -> [d EXCEPT !.inhibit = val]
           [] sub = 5 -> [d EXCEPT !.timer = val]
           [] sub = 6 -> [d EXCEPT !.start_sync = val]

\* The value an upload returns.
DevRead(d, obj, sub) ==
    IF obj = "map"
    THEN (IF sub = 0 THEN d.map_count ELSE d.map[sub])
    ELSE CASE sub = 0 -> d.h
           [] sub = 1 -> d.cob
           [] sub = 2 -> d.mode
           [] sub = 3 -> d.inhibit
           [] sub = 5 -> d.timer
           [] sub = 6 -> d.start_sync

PdoInit ==
    /\ kind \in { "rpdo", "tpdo" }
    /\ config \in { c \in Configs : kind = "rpdo" => (c.rtr_allowed /\ c.start_sync = 0) }
    /\ dev \in Devices
    /\ ppc = "disable_read"
    /\ cob_id = U32(0, 0)
    /\ valid_subindices = 0
    /\ map_i = 0
    /\ sdo_log = << >>
    /\ presult = NoResult

\* bus.sdo_upload(...).await? at step `at`; `next` is the step after a success.
PdoUpload(at, obj, sub, next) ==
    /\ ppc = at
    /\ \E ok \in BOOLEAN :
          /\ sdo_log' = Append(sdo_log, [step |-> at, op |-> "upload", obj |-> obj, sub |-> sub,
                                 index |-> ObjectOf(kind, obj, config.pdo),
                                 val |-> DevRead(dev, obj, sub), cob |-> dev.cob, ok |-> ok])
          /\ IF ok THEN ppc' = next /\ presult' = presult
                   ELSE ppc' = "done" /\ presult' = PdoError("SdoError", at)
    /\ dev' = dev

\* bus.sdo_download(...).await? at step `at`.
PdoDownload(at, obj, sub, val, next) ==
    /\ ppc = at
    /\ \E ok \in BOOLEAN, applied \in BOOLEAN :
          /\ ok => applied
          /\ sdo_log' = Append(sdo_log, [step |-> at, op |-> "download", obj |-> obj, sub |-> sub,
                                 index |-> ObjectOf(kind, obj, config.pdo),
                                 val |-> val, cob |-> dev.cob, ok |-> ok])
          /\ dev' = (IF applied THEN DevWrite(dev, obj, sub, val) ELSE dev)
          /\ IF ok THEN ppc' = next /\ presult' = (IF next = "done" THEN Ok(0) ELSE presult)
                   ELSE ppc' = "done" /\ presult' = PdoError("SdoError", at)

\* `?` on an object index that is InvalidPdoNumber, at step `at`: the call
\* returns before its first SDO operation.
InvalidPdoNumberAt(at) ==
    /\ ppc = at
    /\ ppc' = "done"
    /\ presult' = PdoError("InvalidPdoNumber", at)
    /\ UNCHANGED << dev, sdo_log >>

\* configure_rpdo: the mapping object's index; then enable_rpdo(false): the
\* communication object's index, and the read of the COB-ID ...
DisableRead ==
    /\ IF IsErr(mapping_object(kind, config.pdo))
          \/ IsErr(communication_params_object(kind, config.pdo))
       THEN InvalidPdoNumberAt("disable_read")
       ELSE PdoUpload("disable_read", "comm", 1, "disable_write")
    /\ cob_id' = dev.cob
    /\ UNCHANGED << kind, config, valid_subindices, map_i >>
    /\ UNCHANGED notPdo

\* ... and write it back with bit 31 set.
DisableWrite ==
    /\ PdoDownload("disable_write", "comm", 1, EnableCobId(cob_id, FALSE), "read_valid")
    /\ UNCHANGED << kind, config, cob_id, valid_subindices, map_i >>
    /\ UNCHANGED notPdo

\* write_*_communication_parameters: read subindex 0, check the support of the fields.
ReadValidSubindices ==
    /\ ppc = "read_valid"
    /\ \E ok \in BOOLEAN :
          /\ sdo_log' = Append(sdo_log, [step |-> "read_valid", op |-> "upload", obj |-> "comm", sub |-> 0,
                                 index |-> ObjectOf(kind, "comm", config.pdo),
                                 val |-> DevRead(dev, "comm", 0), cob |-> dev.cob, ok |-> ok])
          /\ IF ~ok
             THEN /\ ppc' = "done"
                  /\ presult' = PdoError("SdoError", "read_valid")
                  /\ valid_subindices' = valid_subindices
             ELSE /\ valid_subindices' = dev.h
                  /\ LET e == SupportError(kind, dev.h, config) IN
                     IF IsErr(e) THEN ppc' = "done" /\ presult' = PdoError(e.tag, "read_valid")
                                 ELSE ppc' = "write_cob" /\ presult' = presult
    /\ UNCHANGED << kind, config, dev, cob_id, map_i >>
    /\ UNCHANGED notPdo

WriteCobId ==
    /\ PdoDownload("write_cob", "comm", 1, ParamCobId(kind, config), "write_mode")
    /\ UNCHANGED << kind, config, cob_id, valid_subindices, map_i >>
    /\ UNCHANGED notPdo

WriteMode ==
    /\ PdoDownload("write_mode", "comm", 2, config.mode,
                   AfterCommWrite(kind, valid_subindices, 2))
    /\ UNCHANGED << kind, config, cob_id, valid_subindices, map_i >>
    /\ UNCHANGED notPdo

WriteInhibitTime ==
    /\ PdoDownload("write_inhibit", "comm", 3, config.inhibit_time_100us,
                   AfterCommWrite(kind, valid_subindices, 3))
    /\ UNCHANGED << kind, config, cob_id, valid_subindices, map_i >>
    /\ UNCHANGED notPdo

WriteTimer ==
    /\ PdoDownload("write_timer", "comm", 5, config.timer_ms,
                   AfterCommWrite(kind, valid_subindices, 5))
    /\ UNCHANGED << kind, config, cob_id, valid_subindices, map_i >>
    /\ UNCHANGED notPdo

WriteStartSync ==
    /\ PdoDownload("write_start_sync", "comm", 6, config.start_sync,
                   AfterCommWrite(kind, valid_subindices, 6))
    /\ UNCHANGED << kind, config, cob_id, valid_subindices, map_i >>
    /\ UNCHANGED notPdo

\* configure_pdo_mapping: set the field count to 0.
MapZero ==
    /\ PdoDownload("map_zero", "map", 0, InitialFieldCount(config.mapping),
                   AfterMapZero(config.mapping))
    /\ map_i' = 0
    /\ UNCHANGED << kind, config, cob_id, valid_subindices >>
    /\ UNCHANGED notPdo

\* configure_pdo_mapping: write entry i at subindex i + 1.
MapEntry ==
    /\ PdoDownload("map_entry", "map", map_i + 1, PdoMapping_to_u32(config.mapping[map_i + 1]),
                   IF map_i + 1 < Len(config.mapping) THEN "map_entry" ELSE "map_count")
    /\ map_i' = map_i + 1
    /\ UNCHANGED << kind, config, cob_id, valid_subindices >>
    /\ UNCHANGED notPdo

\* configure_pdo_mapping: set the field count; then re-enable if asked to.
MapCount ==
    /\ PdoDownload("map_count", "map", 0, Len(config.mapping), AfterMapping(config.enabled))
    /\ UNCHANGED << kind, config, cob_id, valid_subindices, map_i >>
    /\ UNCHANGED notPdo

\* enable_rpdo(true): read the COB-ID ...
EnableRead ==
    /\ IF IsErr(communication_params_object(kind, config.pdo))
       THEN InvalidPdoNumberAt("enable_read")
       ELSE PdoUpload("enable_read", "comm", 1, "enable_write")
    /\ cob_id' = dev.cob
    /\ UNCHANGED << kind, config, valid_subindices, map_i >>
    /\ UNCHANGED notPdo

\* ... and write it back with bit 31 cleared.
EnableWrite ==
    /\ PdoDownload("enable_write", "comm", 1, EnableCobId(cob_id, TRUE), "done")
    /\ UNCHANGED << kind, config, cob_id, valid_subindices, map_i >>
    /\ UNCHANGED notPdo

PdoNext ==
    \/ DisableRead
    \/ DisableWrite
    \/ ReadValidSubindices
    \/ WriteCobId
    \/ WriteMode
    \/ WriteInhibitTime
    \/ WriteTimer
    \/ WriteStartSync
    \/ MapZero
    \/ MapEntry
    \/ MapCount
    \/ EnableRead
    \/ EnableWrite

\* The SDO machine parked: no transfer is being made.
SdoParked ==
    /\ op = "upload"
    /\ pc = "done"
    /\ rx = << >>
    /\ sent = << >>
    /\ buf = [fixed |-> FALSE, cap |-> 0, data |-> << >>]
    /\ len = 0
    /\ total_len = 0
    /\ toggle = FALSE
    /\ dl_data = << >>
    /\ chunk = 0
    /\ result = NoResult

PdoSpecInit == PdoInit /\ SdoParked /\ RouterParked /\ NmtParked /\ SyncParked /\ FilterParked /\ IdParked /\ FrameParked /\ FdParked

PdoSpec == PdoSpecInit /\ [][PdoNext]_vars

PdoTypeOK ==
    /\ (ppc = "done") = (presult # NoResult)
    /\ dev.h \in 1..6

(***************************************************************************)
(* pdo/read_config.rs: read_rpdo_communication_parameters and              *)
(* read_tpdo_communication_parameters against the same device objects.     *)
(* The machine uses the variables of the PDO configuration; `config` holds *)
(* the PDO number and the fields read so far.                              *)
(***************************************************************************)
\* CanId::new(u32)
CanId_new(x) ==
    IF x.hi = 0 /\ x.lo <= 2047 THEN [tag |-> "Ok", ext |-> FALSE, id |-> x]
    ELSE IF x.hi <= 8191 THEN [tag |-> "Ok", ext |-> TRUE, id |-> x]
    ELSE [tag |-> "InvalidId"]

\* Variant of RpdoCobIdMask: the mask of the 29-bit identifier.
RpdoCobIdMask_29 == U32(8191, 65535)

\* The mask read_rpdo_communication_parameters applies: 0x1000_0000.
RpdoCobIdMask == U32(4096, 0)

\* The mask read_tpdo_communication_parameters applies: 0x1FFF_FFFF.
TpdoCobIdMask == U32(8191, 65535)

\* The value read_*_communication_parameters returns, from the COB-ID word
\* and the other fields read.
CommunicationParameters(k, word, f) ==
    IF k = "rpdo"
    THEN [ enabled |-> ~TestBit(word.hi, 15),
           cob_id |-> CanId_new(U32And(word, RpdoCobIdMask)),
           mode |-> f.mode,
           inhibit_time_100us |-> f.inhibit_time_100us,
           deadline_timer_ms |-> f.timer_ms ]
    ELSE [ enabled |-> ~TestBit(word.hi, 15),
           rtr_allowed |-> ~TestBit(word.hi, 14),
           cob_id |-> CanId_new(U32And(word, TpdoCobIdMask)),
           mode |-> f.mode,
           inhibit_time_100us |-> f.inhibit_time_100us,
           event_timer_ms |-> f.timer_ms,
           start_sync |-> f.start_sync ]

\* Variant of AfterCommRead: every subindex is read whatever subindex 0 says.
AfterCommRead_all(k, valid, sub) ==
    IF sub < 3 THEN "r_inhibit"
    ELSE IF sub < 5 THEN "r_timer"
    ELSE IF sub < 6 /\ k = "tpdo" THEN "r_start_sync"
    ELSE "done"

\* The upload that follows the one of communication subindex `sub` (>= 2).
AfterCommRead(k, valid, sub) ==
    IF sub < 3 /\ valid >= 3 THEN "r_inhibit"
    ELSE IF sub < 5 /\ valid >= 5 THEN "r_timer"
    ELSE IF sub < 6 /\ valid >= 6 /\ k = "tpdo" THEN "r_start_sync"
    ELSE "done"

\* COB-ID words a device may hold: a standard id enabled, disabled, without
\* RTR; an extended id (bit 29) 0x12345; the identifier 0x1000_0000; all
\* identifier bits; every bit.
ReadCobWords ==
    { U32(0, 389), U32(32768, 389), U32(16384, 389), U32(8193, 9029),
      U32(4096, 0), U32(8191, 65535), U32(65535, 65535) }

\* Devices that are read: subindex 0 is a u8 the code takes as it comes, and
\* every parameter holds a value other than 0.
ReadDevices ==
    [ h : { 0, 2, 3, 4, 5, 6, 255 },
      cob : ReadCobWords,
      mode : {254}, inhibit : {7}, timer : {9}, start_sync : {3},
      map_count : {1},
      map : { [i \in 1..(MaxMappings + 1) |-> U32(0, 0)] } ]

NoFields(n) ==
    [pdo |-> n, mode |-> 0, inhibit_time_100us |-> 0, timer_ms |-> 0, start_sync |-> 0]

PdoReadInit ==
    /\ kind \in { "rpdo", "tpdo" }
    /\ config \in { NoFields(n) : n \in PdoNumbers }
    /\ dev \in ReadDevices
    /\ ppc = "r_valid"
    /\ cob_id = U32(0, 0)
    /\ valid_subindices = 0
    /\ map_i = 0
    /\ sdo_log = << >>
    /\ presult = NoResult

\* bus.sdo_upload(config_index, sub).await? at step `at`: `cfg` and `word` are
\* the fields and the COB-ID word once it succeeded, `next` the step after it.
\* The index of the communication object is computed first.
CommRead(at, sub, ok, next, cfg, word) ==
    /\ ppc = at
    /\ ~IsErr(communication_params_object(kind, config.pdo))
    /\ sdo_log' = Append(sdo_log, [step |-> at, op |-> "upload", obj |-> "comm", sub |-> sub,
                           index |-> ObjectOf(kind, "comm", config.pdo),
                           val |-> DevRead(dev, "comm", sub), cob |-> dev.cob, ok |-> ok])
    /\ IF ok
       THEN /\ config' = cfg
            /\ cob_id' = word
            /\ ppc' = next
            /\ presult' = (IF next = "done" THEN Ok(CommunicationParameters(kind, word, cfg))
                                            ELSE presult)
       ELSE /\ config' = config
            /\ cob_id' = cob_id
            /\ ppc' = "done"
            /\ presult' = PdoError("SdoError", at)
    /\ UNCHANGED << kind, dev, map_i >>
    /\ UNCHANGED notPdo

ReadCommValid ==
    \/ \E ok \in BOOLEAN :
          /\ CommRead("r_valid", 0, ok, "r_cob", config, cob_id)
          /\ valid_subindices' = (IF ok THEN DevRead(dev, "comm", 0) ELSE valid_subindices)
    \/ /\ IsErr(communication_params_object(kind, config.pdo))
       /\ InvalidPdoNumberAt("r_valid")
       /\ UNCHANGED << kind, config, cob_id, valid_subindices, map_i >>
       /\ UNCHANGED notPdo

ReadCommCobId ==
    \E ok \in BOOLEAN :
        /\ CommRead("r_cob", 1, ok, "r_mode", config, DevRead(dev, "comm", 1))
        /\ UNCHANGED valid_subindices

ReadCommMode ==
    \E ok \in BOOLEAN :
        /\ CommRead("r_mode", 2, ok, AfterCommRead(kind, valid_subindices, 2),
                    [config EXCEPT !.mode = DevRead(dev, "comm", 2)], cob_id)
        /\ UNCHANGED valid_subindices

ReadCommInhibitTime ==
    \E ok \in BOOLEAN :
        /\ CommRead("r_inhibit", 3, ok, AfterCommRead(kind, valid_subindices, 3),
                    [config EXCEPT !.inhibit_time_100us = DevRead(dev, "comm", 3)], cob_id)
        /\ UNCHANGED valid_subindices

ReadCommTimer ==
    \E ok \in BOOLEAN :
        /\ CommRead("r_timer", 5, ok, AfterCommRead(kind, valid_subindices, 5),
                    [config EXCEPT !.timer_ms = DevRead(dev, "comm", 5)], cob_id)
        /\ UNCHANGED valid_subindices

ReadCommStartSync ==
    \E ok \in BOOLEAN :
        /\ CommRead("r_start_sync", 6, ok, AfterCommRead(kind, valid_subindices, 6),
                    [config EXCEPT !.start_sync = DevRead(dev, "comm", 6)], cob_id)
        /\ UNCHANGED valid_subindices

PdoReadNext ==
    \/ ReadCommValid
    \/ ReadCommCobId
    \/ ReadCommMode
    \/ ReadCommInhibitTime
    \/ ReadCommTimer
    \/ ReadCommStartSync

PdoReadSpecInit == PdoReadInit /\ SdoParked /\ RouterParked /\ NmtParked /\ SyncParked /\ FilterParked /\ IdParked /\ FrameParked /\ FdParked

PdoReadSpec == PdoReadSpecInit /\ [][PdoReadNext]_vars

\* Every PDO operation: a call that configures or a call that reads.
PdoAnyInit == (PdoInit \/ PdoReadInit) /\ SdoParked /\ RouterParked /\ NmtParked /\ SyncParked /\ FilterParked /\ IdParked /\ FrameParked /\ FdParked

PdoAnyNext == PdoNext \/ PdoReadNext

PdoAnySpec == PdoAnyInit /\ [][PdoAnyNext]_vars

(***************************************************************************)
(* Properties of the PDO configuration.                                    *)
(***************************************************************************)
Downloads(l) == SelectSeq(l, LAMBDA e : e.op = "download")

CobIdDownloads(l) == SelectSeq(l, LAMBDA e : e.op = "download" /\ e.obj = "comm" /\ e.sub = 1)

Disabled(word) == TestBit(word.hi, 15)

IsPrefix(a, b) == Len(a) <= Len(b) /\ a = SubSeq(b, 1, Len(a))

\* C8: every download to communication subindex 2, 3, 5 or 6 and every download
\* to the mapping object is made while bit 31 of the device's COB-ID word is
\* set, and the COB-ID written with the parameters has bit 31 set.
C8_ParametersWrittenWhileDisabled ==
    \A i \in 1..Len(sdo_log) :
        LET e == sdo_log[i] IN
        e.op = "download" =>
            /\ (e.obj = "map" \/ e.sub \in {2, 3, 5, 6}) => Disabled(e.cob)
            /\ e.step = "write_cob" => Disabled(e.val)

\* C8 witness: a TPDO that was enabled has been configured completely,
\* start SYNC and mapping entries included.
C8_Witness ==
    /\ kind = "tpdo" /\ ppc = "done" /\ presult = Ok(0)
    /\ ~Disabled(sdo_log[1].val)
    /\ \E i \in 1..Len(sdo_log) : sdo_log[i].op = "download" /\ sdo_log[i].sub = 6
    /\ \E i \in 1..Len(sdo_log) : sdo_log[i].step = "map_entry"

\* The objects written by a complete configuration, in order.
ExpectedTargets ==
    << << "comm", 1 >>, << "comm", 1 >>, << "comm", 2 >> >>
    \o (IF dev.h >= 3 THEN << << "comm", 3 >> >> ELSE << >>)
    \o (IF dev.h >= 5 THEN << << "comm", 5 >> >> ELSE << >>)
    \o (IF dev.h >= 6 /\ kind = "tpdo" THEN << << "comm", 6 >> >> ELSE << >>)
    \o << << "map", 0 >> >>
    \o [i \in 1..Len(config.mapping) |-> << "map", i >>]
    \o << << "map", 0 >> >>
    \o (IF config.enabled THEN << << "comm", 1 >> >> ELSE << >>)

\* C9: the downloads are made in the fixed order disable, communication
\* parameters, mapping count 0, entries 1..k in list order, mapping count k,
\* and the enabling write only if config.communication.enabled; otherwise no
\* write clears bit 31.
C9_WriteOrder ==
    LET w == Downloads(sdo_log)
        c == CobIdDownloads(sdo_log)
        k == Len(config.mapping)
    IN  /\ IsPrefix([i \in 1..Len(w) |-> << w[i].obj, w[i].sub >>], ExpectedTargets)
        /\ presult = Ok(0) => Len(w) = Len(ExpectedTargets)
        /\ Len(sdo_log) >= 2 =>
              /\ sdo_log[1].op = "upload" /\ sdo_log[1].obj = "comm" /\ sdo_log[1].sub = 1
              /\ sdo_log[2].op = "download"
              /\ sdo_log[2].val = U32(SetBit(sdo_log[1].val.hi, 15), sdo_log[1].val.lo)
        /\ \A i \in 1..Len(w) :
              w[i].obj = "map" =>
                 IF w[i].sub >= 1 THEN w[i].val = PdoMapping_to_u32(config.mapping[w[i].sub])
                 ELSE w[i].val = (IF \E j \in 1..(i - 1) : w[j].obj = "map" THEN k ELSE 0)
        /\ \A i \in 1..Len(c) : Disabled(c[i].val) = (i <= 2)
        /\ ~config.enabled => \A i \in 1..Len(c) : Disabled(c[i].val)

\* C9 witness: a TPDO with six communication subindices and two mapping
\* entries has been configured and enabled.
C9_Witness ==
    /\ kind = "tpdo" /\ dev.h = 6 /\ config.enabled
    /\ Len(config.mapping) >= 2
    /\ ppc = "done" /\ presult = Ok(0)

ParameterSteps == { "read_valid", "write_cob", "write_mode", "write_inhibit", "write_timer",
                    "write_start_sync", "map_zero", "map_entry", "map_count" }

\* C10: a failure while writing the communication parameters or the mapping
\* ends the call with the error, without the enabling step, and the device's
\* COB-ID keeps bit 31 set.
C10_FailureLeavesPdoDisabled ==
    (ppc = "done" /\ IsErr(presult) /\ presult.at \in ParameterSteps) =>
        /\ Disabled(dev.cob)
        /\ \A i \in 1..Len(sdo_log) : sdo_log[i].step \notin { "enable_read", "enable_write" }

\* C10 witness: the write of a mapping entry failed while configuring a PDO
\* that was enabled and is meant to be enabled.
C10_Witness ==
    /\ ppc = "done" /\ IsErr(presult) /\ presult.at = "map_entry"
    /\ config.enabled
    /\ ~Disabled(sdo_log[1].val)

\* Steps of configure_pdo_mapping after the field count was zeroed.
MappingSteps == { "map_entry", "map_count" }

\* C11: while the mapping object is rewritten no partial mapping is active:
\* every entry is written while the device's field count is 0; once the
\* zeroing write succeeded the count is 0 or, after the final write, the
\* number of entries with every entry already in place; and no entry is
\* written unless the zeroing write succeeded.
C11_NoPartialMapping ==
    LET k == Len(config.mapping)
        zeroed == \E i \in 1..Len(sdo_log) : sdo_log[i].step = "map_zero" /\ sdo_log[i].ok
        counted == \E i \in 1..Len(sdo_log) : sdo_log[i].step = "map_count"
    IN  /\ ppc \in MappingSteps => dev.map_count = 0
        /\ zeroed =>
              \/ dev.map_count = 0
              \/ /\ counted
                 /\ dev.map_count = k
                 /\ \A i \in 1..k : dev.map[i] = PdoMapping_to_u32(config.mapping[i])
        /\ ~zeroed => \A i \in 1..Len(sdo_log) : sdo_log[i].step \notin MappingSteps

\* C11 witness: two entries were written over a mapping that had one, and the
\* final count is in place.
C11_Witness ==
    /\ Len(config.mapping) = 2
    /\ dev.map_count = 2
    /\ dev.map[2] = PdoMapping_to_u32(config.mapping[2])
    /\ \E i \in 1..Len(sdo_log) : sdo_log[i].step = "map_count" /\ sdo_log[i].ok

\* The dedicated errors of the fields that are non-zero in `params` and that a
\* device with highest subindex h does not support.
UnsupportedFields(k, h, params) ==
    (IF h < 3 /\ params.inhibit_time_100us > 0 THEN { "InhibitTimeNotSupported" } ELSE {})
    \cup (IF h < 5 /\ params.timer_ms > 0
          THEN { IF k = "rpdo" THEN "DeadlineTimerNotSupported" ELSE "EventTimerNotSupported" }
          ELSE {})
    \cup (IF k = "tpdo" /\ h < 6 /\ params.start_sync > 0 THEN { "StartSyncNotSupported" } ELSE {})

NotSupportedTags == { "InhibitTimeNotSupported", "DeadlineTimerNotSupported",
                      "EventTimerNotSupported", "StartSyncNotSupported" }

\* The downloads of write_rpdo/tpdo_communication_parameters.
CommWriteSteps == { "write_cob", "write_mode", "write_inhibit", "write_timer",
                    "write_start_sync" }

\* Once subindex 0 was read, a non-zero unsupported field ends the call with
\* its dedicated error before any download of the step; the dedicated errors
\* arise in no other way.
UnsupportedFieldFails ==
    LET read == \E i \in 1..Len(sdo_log) : sdo_log[i].step = "read_valid" /\ sdo_log[i].ok
        unsupported == UnsupportedFields(kind, dev.h, config)
    IN  /\ (read /\ unsupported # {}) =>
              /\ ppc = "done"
              /\ presult.tag \in unsupported
              /\ \A i \in 1..Len(sdo_log) : sdo_log[i].step \notin CommWriteSteps
        /\ presult.tag \in NotSupportedTags => (read /\ presult.tag \in unsupported)

\* The optional subindices 3, 5 and 6 are written only when the device reports
\* them: no download of the step goes to a subindex above h other than 1 and 2.
OptionalSubindicesSupported ==
    \A i \in 1..Len(sdo_log) :
        (sdo_log[i].step \in CommWriteSteps /\ sdo_log[i].sub >= 3) => sdo_log[i].sub <= dev.h

\* C12 as amended: a non-zero field whose subindex the device does not report
\* fails with its dedicated error before any communication parameter is
\* written by the step, and the optional subindices 3, 5 and 6 are never
\* written above the highest subindex h the device reported (subindices 1
\* and 2 are written whatever h is).
C12_UnsupportedOptionalFieldRejected ==
    /\ UnsupportedFieldFails
    /\ OptionalSubindicesSupported

\* C12 as stated: as above, and the step never writes any subindex above h.
C12_UnsupportedFieldRejected ==
    /\ UnsupportedFieldFails
    /\ \A i \in 1..Len(sdo_log) :
          sdo_log[i].step \in CommWriteSteps => sdo_log[i].sub <= dev.h

\* C12 witness: an RPDO with a deadline timer was asked of a device that
\* reports 3 subindices.
C12_Witness ==
    /\ kind = "rpdo" /\ dev.h = 3 /\ config.timer_ms > 0
    /\ presult = PdoError("DeadlineTimerNotSupported", "read_valid")

(***************************************************************************)
(* Properties of reading the PDO communication parameters.                 *)
(***************************************************************************)
\* The subindices uploaded so far, in order.
SubindicesRead == [i \in 1..Len(sdo_log) |-> sdo_log[i].sub]

\* C25: reading the communication parameters issues uploads only, subindex
\* 0 first; with h the value of subindex 0, a call that succeeds has read
\* 0, 1, 2, then 3 if h >= 3, 5 if h >= 5 and (TPDO) 6 if h >= 6, in that
\* order, a failed call a prefix of that; so no subindex above h is read
\* other than 1 and 2, and a field whose subindex is not read is reported 0
\* while a field that is read is reported as the device holds it.
C25_ReadsOnlySupportedSubindices ==
    LET h == dev.h
        wanted == << 0, 1, 2 >>
                  \o (IF h >= 3 THEN << 3 >> ELSE << >>)
                  \o (IF h >= 5 THEN << 5 >> ELSE << >>)
                  \o (IF kind = "tpdo" /\ h >= 6 THEN << 6 >> ELSE << >>)
    IN  /\ \A i \in 1..Len(sdo_log) :
              /\ sdo_log[i].op = "upload"
              /\ sdo_log[i].sub > 2 => sdo_log[i].sub <= h
        /\ Len(SubindicesRead) <= Len(wanted)
        /\ SubindicesRead = SubSeq(wanted, 1, Len(SubindicesRead))
        /\ presult.tag = "Ok" =>
              /\ SubindicesRead = wanted
              /\ presult.val.mode = dev.mode
              /\ presult.val.inhibit_time_100us = (IF h >= 3 THEN dev.inhibit ELSE 0)
              /\ kind = "rpdo" =>
                    presult.val.deadline_timer_ms = (IF h >= 5 THEN dev.timer ELSE 0)
              /\ kind = "tpdo" =>
                    /\ presult.val.event_timer_ms = (IF h >= 5 THEN dev.timer ELSE 0)
                    /\ presult.val.start_sync = (IF h >= 6 THEN dev.start_sync ELSE 0)

\* C25 witness: a TPDO whose subindex 0 is 4 was read with four uploads; the
\* inhibit time is the device's, the event timer and start SYNC are 0.
C25_Witness ==
    /\ kind = "tpdo"
    /\ dev.h = 4
    /\ presult.tag = "Ok"
    /\ SubindicesRead = << 0, 1, 2, 3 >>
    /\ presult.val.inhibit_time_100us = 7
    /\ presult.val.event_timer_ms = 0
    /\ presult.val.start_sync = 0

\* Bits 28..0 of a u32.
Bits28to0(word) == U32(word.hi % 8192, word.lo)

\* C26: a successful read reports as cob_id the bits 28..0 of the COB-ID
\* word the device holds, enabled iff bit 31 of the word is 0 and, for a
\* TPDO, rtr_allowed iff bit 30 is 0.
C26_CobIdIsBits28to0 ==
    presult.tag = "Ok" =>
        /\ presult.val.cob_id.id = Bits28to0(dev.cob)
        /\ presult.val.enabled = (dev.cob.hi < 32768)
        /\ kind = "tpdo" => presult.val.rtr_allowed = ((dev.cob.hi \div 16384) % 2 = 0)

EnableArguments == [pdo : PdoNumbers, enabled : BOOLEAN]

PdoEnableInit ==
    /\ kind \in { "rpdo", "tpdo" }
    /\ config \in EnableArguments
    /\ dev \in ReadDevices
    /\ ppc = "en_read"
    /\ cob_id = U32(0, 0)
    /\ valid_subindices = 0
    /\ map_i = 0
    /\ sdo_log = << >>
    /\ presult = NoResult

\* enable_*: the index of the communication object, and the upload of
\* subindex 1 ...
EnableCallRead ==
    /\ IF IsErr(communication_params_object(kind, config.pdo))
       THEN InvalidPdoNumberAt("en_read")
       ELSE PdoUpload("en_read", "comm", 1, "en_write")
    /\ cob_id' = dev.cob
    /\ UNCHANGED << kind, config, valid_subindices, map_i >>
    /\ UNCHANGED notPdo

\* ... and the download of the word with bit 31 cleared or set.
EnableCallWrite ==
    /\ PdoDownload("en_write", "comm", 1, EnableCobId(cob_id, config.enabled), "done")
    /\ UNCHANGED << kind, config, cob_id, valid_subindices, map_i >>
    /\ UNCHANGED notPdo

PdoEnableNext ==
    \/ EnableCallRead
    \/ EnableCallWrite

PdoEnableSpecInit == PdoEnableInit /\ SdoParked /\ RouterParked /\ NmtParked /\ SyncParked /\ FilterParked /\ IdParked /\ FrameParked /\ FdParked

PdoEnableSpec == PdoEnableSpecInit /\ [][PdoEnableNext]_vars

\* Word w is word v with bit 31 clear if `enabled` and set if not, every
\* other bit as in v.
OnlyBit31Changed(v, w, enabled) ==
    /\ w.lo = v.lo
    /\ w.hi % 32768 = v.hi % 32768
    /\ TestBit(w.hi, 15) = ~enabled

\* C40: enable_rpdo / enable_tpdo write one value, to subindex 1 of the
\* communication object: the COB-ID word just read with bit 31 cleared
\* (enable) or set (disable) and every other bit as read; no other object
\* is written, and nothing is written when the read fails.
C40_EnableChangesOnlyBit31 ==
    /\ [](/\ Len(sdo_log) <= 2
          /\ \A i \in 1..Len(sdo_log) :
                sdo_log[i].op = "download" =>
                    /\ i = 2
                    /\ sdo_log[1].op = "upload" /\ sdo_log[1].ok
                    /\ sdo_log[1].obj = "comm" /\ sdo_log[1].sub = 1
                    /\ sdo_log[i].obj = "comm" /\ sdo_log[i].sub = 1
                    /\ sdo_log[i].index = sdo_log[1].index
                    /\ OnlyBit31Changed(sdo_log[1].val, sdo_log[i].val, config.enabled))
    /\ [][ dev' # dev =>
              /\ dev' = [dev EXCEPT !.cob = dev'.cob]
              /\ OnlyBit31Changed(dev.cob, dev'.cob, config.enabled)
         ]_vars

\* enable(.., false) on a PDO whose word is 0x4000_0185 has returned Ok: the
\* word written and held by the device is 0xC000_0185.
C40_Witness ==
    /\ ppc = "done"
    /\ ~IsErr(presult)
    /\ ~config.enabled
    /\ Len(sdo_log) = 2
    /\ sdo_log[1].val = U32(16384, 389)
    /\ sdo_log[2].val = U32(49152, 389)
    /\ dev.cob = U32(49152, 389)

(***************************************************************************)
(* examples/configure-pdo.rs: read_*_configuration, then configure_* with  *)
(* the configuration that was read.  read_*_configuration goes on from the *)
(* return of read_*_communication_parameters with read_pdo_mapping; while  *)
(* it runs, `config` holds the PDO number, the communication parameters,   *)
(* the count read from subindex 0 and the entries read so far.             *)
(***************************************************************************)
\* PdoMapping::from_u32
PdoMapping_from_u32(raw) ==
    [ object |-> [index |-> raw.hi, subindex |-> raw.lo \div 256],
      bit_length |-> raw.lo % 256 ]

\* The steps of read_*_communication_parameters and of read_pdo_mapping.
ReadCommSteps == { "r_valid", "r_cob", "r_mode", "r_inhibit", "r_timer", "r_start_sync" }

ReadSteps == ReadCommSteps \cup { "rm_count", "rm_entry" }

\* The step of the last SDO operation.
LastStep == IF sdo_log = << >> THEN "none" ELSE sdo_log[Len(sdo_log)].step

\* RpdoConfiguration / TpdoConfiguration { communication, mapping } in the
\* form configure_rpdo / configure_tpdo take it.
Configuration(k, n, params, mapping) ==
    [ pdo |-> n,
      enabled |-> params.enabled,
      rtr_allowed |-> IF k = "tpdo" THEN params.rtr_allowed ELSE TRUE,
      cob_id |-> [ext |-> params.cob_id.ext, id |-> params.cob_id.id],
      mode |-> params.mode,
      inhibit_time_100us |-> params.inhibit_time_100us,
      timer_ms |-> IF k = "tpdo" THEN params.event_timer_ms ELSE params.deadline_timer_ms,
      start_sync |-> IF k = "tpdo" THEN params.start_sync ELSE 0,
      mapping |-> mapping ]

\* The entries a device holds: 16 bits of object 0x6040 + i, sub 0.
RmwMap == [i \in 1..(MaxMappings + 1) |-> PdoMapping_to_u32(MappingEntry(i))]

\* Devices whose configuration is read and written back: every field is
\* supported (subindex 0 is 5 or 6) and holds a value other than 0.
RmwDevices ==
    [ h : { 5, 6 },
      cob : ReadCobWords,
      mode : {254}, inhibit : {7}, timer : {9}, start_sync : {3},
      map_count : 0..MaxMappings,
      map : { RmwMap } ]

PdoRmwInit ==
    /\ kind \in { "rpdo", "tpdo" }
    /\ config \in { NoFields(n) : n \in PdoNumbers }
    /\ dev \in RmwDevices
    /\ ppc = "r_valid"
    /\ cob_id = U32(0, 0)
    /\ valid_subindices = 0
    /\ map_i = 0
    /\ sdo_log = << >>
    /\ presult = NoResult

\* read_pdo_mapping: the upload of subindex 0, after
\* read_*_communication_parameters has returned Ok.
ReadMappingCount ==
    /\ ppc = "done"
    /\ LastStep \in ReadCommSteps
    /\ ~IsErr(presult)
    /\ \E ok \in BOOLEAN :
          /\ sdo_log' = Append(sdo_log, [step |-> "rm_count", op |-> "upload", obj |-> "map", sub |-> 0,
                                 index |-> ObjectOf(kind, "map", config.pdo),
                                 val |-> DevRead(dev, "map", 0), cob |-> dev.cob, ok |-> ok])
          /\ IF ~ok
             THEN /\ presult' = PdoError("SdoError", "rm_count")
                  /\ UNCHANGED << ppc, config >>
             ELSE LET count == DevRead(dev, "map", 0) IN
                  IF count = 0
                  THEN /\ presult' = Ok(Configuration(kind, config.pdo, presult.val, << >>))
                       /\ UNCHANGED << ppc, config >>
                  ELSE /\ presult' = NoResult
                       /\ ppc' = "rm_entry"
                       /\ config' = [ pdo |-> config.pdo, communication |-> presult.val,
                                      count |-> count, mapping |-> << >> ]
    /\ map_i' = 0
    /\ UNCHANGED << kind, dev, cob_id, valid_subindices >>
    /\ UNCHANGED notPdo

\* read_pdo_mapping: the upload of subindex i, for i in 1..=count.
ReadMappingEntry ==
    /\ ppc = "rm_entry"
    /\ \E ok \in BOOLEAN :
          /\ sdo_log' = Append(sdo_log, [step |-> "rm_entry", op |-> "upload", obj |-> "map",
                                 sub |-> map_i + 1,
                                 index |-> ObjectOf(kind, "map", config.pdo),
                                 val |-> DevRead(dev, "map", map_i + 1), cob |-> dev.cob, ok |-> ok])
          /\ IF ~ok
             THEN /\ presult' = PdoError("SdoError", "rm_entry")
                  /\ ppc' = "done"
                  /\ UNCHANGED << config, map_i >>
             ELSE LET fields == Append(config.mapping,
                                       PdoMapping_from_u32(DevRead(dev, "map", map_i + 1)))
                  IN  /\ config' = [config EXCEPT !.mapping = fields]
                      /\ map_i' = map_i + 1
                      /\ IF map_i + 1 < config.count
                         THEN ppc' = "rm_entry" /\ presult' = NoResult
                         ELSE /\ ppc' = "done"
                              /\ presult' = Ok(Configuration(kind, config.pdo,
                                                             config.communication, fields))
    /\ UNCHANGED << kind, dev, cob_id, valid_subindices >>
    /\ UNCHANGED notPdo

\* do_main: configure_rpdo / configure_tpdo is called with the
\* configuration read_*_configuration returned, unmodified.
ConfigureWhatWasRead ==
    /\ ppc = "done"
    /\ LastStep \in { "rm_count", "rm_entry" }
    /\ ~IsErr(presult)
    /\ config' = presult.val
    /\ ppc' = "disable_read"
    /\ presult' = NoResult
    /\ cob_id' = U32(0, 0)
    /\ valid_subindices' = 0
    /\ map_i' = 0
    /\ UNCHANGED << kind, dev, sdo_log >>
    /\ UNCHANGED notPdo

PdoRmwNext ==
    \/ PdoReadNext
    \/ ReadMappingCount
    \/ ReadMappingEntry
    \/ ConfigureWhatWasRead
    \/ PdoNext

PdoRmwSpecInit == PdoRmwInit /\ SdoParked /\ RouterParked /\ NmtParked /\ SyncParked /\ FilterParked /\ IdParked /\ FrameParked /\ FdParked

PdoRmwSpec == PdoRmwSpecInit /\ [][PdoRmwNext]_vars

\* configure_* has returned Ok after read_*_configuration.
RmwReturnedOk ==
    /\ ppc = "done"
    /\ ~IsErr(presult)
    /\ LastStep \notin ReadSteps \cup { "none" }
    /\ sdo_log[1].step = "r_valid"

\* Every object that was read holds the value that was read from it.
EveryObjectAsRead ==
    \A i \in 1..Len(sdo_log) :
        sdo_log[i].step \in ReadSteps =>
            DevRead(dev, sdo_log[i].obj, sdo_log[i].sub) = sdo_log[i].val

\* C37: reading the configuration of a PDO whose fields are all supported
\* and configuring the PDO with the unmodified result leaves every object
\* of the PDO with the value it had: the whole COB-ID word, the
\* transmission type, the timers, the mapping count and the entries.
C37_ReadConfigureLossless ==
    RmwReturnedOk => EveryObjectAsRead

\* What holds: the round trip is lossless for a TPDO whose COB-ID word has
\* bit 29 set exactly if the identifier is above 0x7FF.
TpdoRoundTripLossless ==
    (/\ RmwReturnedOk
     /\ kind = "tpdo"
     /\ dev.h = 6
     /\ TestBit(sdo_log[2].val.hi, 13) = CanId_new(U32And(sdo_log[2].val, TpdoCobIdMask)).ext)
        => EveryObjectAsRead

(***************************************************************************)
(* can-socket: sys/linux.rs, the kernel's can_id word of frames and        *)
(* filters.  Bit 31 is CAN_EFF_FLAG, bit 30 CAN_RTR_FLAG, bit 29           *)
(* CAN_INV_FILTER in a filter; bits 28..0 hold the id.                     *)
(***************************************************************************)
\* libc::CAN_EFF_FLAG = 0x8000_0000
CAN_EFF_FLAG == U32(32768, 0)

\* libc::CAN_RTR_FLAG = 0x4000_0000
CAN_RTR_FLAG == U32(16384, 0)

\* libc::CAN_INV_FILTER = 0x2000_0000
CAN_INV_FILTER == U32(8192, 0)

\* libc::CAN_EFF_MASK = 0x1FFF_FFFF
CAN_EFF_MASK == U32(8191, 65535)

\* The can_id word of a frame: sys CanFrame::new / new_rtr.
sys_can_id(frame) ==
    LET base == U32(frame.id \div 65536, frame.id % 65536)
        word == IF frame.ext THEN U32Or(base, CAN_EFF_FLAG) ELSE base
    IN  IF frame.rtr THEN U32Or(word, CAN_RTR_FLAG) ELSE word

\* sys CanFilter::new_standard
CanFilter_new_standard(id) == [can_id |-> U32(0, id), can_mask |-> U32(0, 0)]

\* sys CanFilter::match_exact_id
match_exact_id(filter) ==
    [filter EXCEPT !.can_mask = U32Or(@, U32Or(CAN_EFF_MASK, CAN_EFF_FLAG))]

\* sys CanFilter::new_extended
CanFilter_new_extended(id) ==
    [can_id |-> U32(id \div 65536, id % 65536), can_mask |-> U32(0, 0)]

\* CanFilter::new(CanId), filter.rs; a CanId is [ext, id].
CanFilter_new(id) ==
    IF id.ext THEN CanFilter_new_extended(id.id) ELSE CanFilter_new_standard(id.id)

\* sys CanFilter::match_id_value
match_id_value(f) == [f EXCEPT !.can_mask = U32Or(@, CAN_EFF_MASK)]

\* sys CanFilter::match_id_mask
match_id_mask(f, mask) == [f EXCEPT !.can_mask = U32Or(@, U32And(mask, CAN_EFF_MASK))]

\* sys CanFilter::match_frame_format
match_frame_format(f) == [f EXCEPT !.can_mask = U32Or(@, CAN_EFF_FLAG)]

\* sys CanFilter::match_rtr_only
match_rtr_only(f) ==
    [f EXCEPT !.can_id = U32Or(@, CAN_RTR_FLAG), !.can_mask = U32Or(@, CAN_RTR_FLAG)]

\* sys CanFilter::match_data_only
match_data_only(f) ==
    [f EXCEPT !.can_id = U32(ClearBit(@.hi, 14), @.lo), !.can_mask = U32Or(@, CAN_RTR_FLAG)]

\* sys CanFilter::inverted
inverted(filter, inv) ==
    IF inv THEN [filter EXCEPT !.can_id = U32Or(@, CAN_INV_FILTER)]
    ELSE [filter EXCEPT !.can_id = U32(ClearBit(@.hi, 13), @.lo)]

\* sys CanFilter::is_inverted
is_inverted(filter) == U32And(filter.can_id, CAN_INV_FILTER) # U32(0, 0)

\* Variant of CanFilter_test: no frame is accepted.
CanFilter_test_none(filter, frame) == FALSE

\* sys CanFilter::test
CanFilter_test(filter, frame) ==
    LET id == U32(ClearBit(filter.can_id.hi, 13), filter.can_id.lo)
        frame_matches == U32And(sys_can_id(frame), filter.can_mask) = U32And(id, filter.can_mask)
    IN  IF is_inverted(filter) THEN frame_matches ELSE ~frame_matches

(***************************************************************************)
(* can-socket: tokio/router.rs.  Tasks share one Router; each task makes   *)
(* one Router::recv call or holds one streaming Subscription, on which it  *)
(* calls recv again and again.  A task is suspended in the select loop     *)
(* ("select") or has taken a result from the socket and is about to        *)
(* dispatch it ("route"); with several worker threads the read and the     *)
(* dispatch of different tasks interleave.  A deadline is "pending",       *)
(* "passed" (the instant is over) or "expired" (a call has returned        *)
(* because of it, so every later call returns at once).                    *)
(***************************************************************************)
\* An io::Error of the given kind.
Err(k) == [tag |-> "Err", kind |-> k]

\* Ok(None) of Subscription::recv.
OkNone == [tag |-> "OkNone"]

\* clone_error: the copy keeps the kind (raw OS error or ErrorKind).
clone_error(error) == Err(error.kind)

\* frame.as_ref().map(|frame| *frame).map_err(clone_error)
clone_error_or_copy(res) == IF res.tag = "Ok" THEN res ELSE clone_error(res)

\* The i-th result of the socket: a data frame with standard id 0x181 or
\* 0x182 whose payload is its position on the wire, or a receive error.
WireResult(k, i) ==
    CASE k = "a" -> Ok(CanFrame_new(385, << i >>))
      [] k = "b" -> Ok(CanFrame_new(386, << i >>))
      [] k = "err" -> Err("Other")

Wires == { [i \in 1..MaxWire |-> WireResult(w[i], i)] : w \in [1..MaxWire -> { "a", "b", "err" }] }

\* The queue_capacity values of the streaming subscriptions.
QueueCapacities == { 1 }

\* The filters the tasks subscribe with.
RouterFilters ==
    { match_exact_id(CanFilter_new_standard(385)),
      inverted(CanFilter_new_standard(385), TRUE) }

\* SubscriptionTx::Once { filter, frame_tx: Some(..) } feeding the channel of task t.
SubscriptionOnceTx(filter, t) == [kind |-> "Once", filter |-> filter, tx |-> t, frame_tx |-> TRUE]

\* SubscriptionTx::Many { filter, frame_tx } feeding the channel of task t.
SubscriptionManyTx(filter, t) == [kind |-> "Many", filter |-> filter, tx |-> t, frame_tx |-> TRUE]

\* Variant of is_open: a closed channel goes unnoticed.
is_open_always(s, ch) == TRUE

\* SubscriptionTx::is_open
is_open(s, ch) ==
    IF s.kind = "Once" THEN s.frame_tx /\ ch[s.tx].rx_open
    ELSE ch[s.tx].rx_open

\* Variant of SubscriptionTx_test: errors are matched by no subscription.
SubscriptionTx_test_frames_only(s, res) ==
    IF res.tag = "Ok" THEN CanFilter_test(s.filter, res.val) ELSE FALSE

\* Variant of SubscriptionTx_test: only the first task's subscription is asked.
SubscriptionTx_test_first(s, res) ==
    IF res.tag = "Ok" THEN s.tx = 1 /\ CanFilter_test(s.filter, res.val) ELSE TRUE

\* Variant of SubscriptionTx_test: every subscription wants every result.
SubscriptionTx_test_any(s, res) == TRUE

\* SubscriptionTx::test
SubscriptionTx_test(s, res) ==
    IF res.tag = "Ok" THEN CanFilter_test(s.filter, res.val) ELSE TRUE

\* Variant of deliver: a full queue is reported as a delivery.
deliver_lossy(s, res, ch) ==
    IF Len(ch[s.tx].queue) < ch[s.tx].cap
    THEN [ ok |-> TRUE, sub |-> [s EXCEPT !.frame_tx = (s.kind = "Many")],
           chan |-> [ch EXCEPT ![s.tx].queue = Append(@, res)] ]
    ELSE [ ok |-> TRUE, sub |-> s, chan |-> ch ]

\* Variant of deliver: a one-shot sender is not consumed, a later frame
\* replaces the one delivered before.
deliver_latest(s, res, ch) ==
    IF ch[s.tx].rx_open /\ (s.kind = "Once" \/ Len(ch[s.tx].queue) < ch[s.tx].cap)
    THEN [ ok |-> TRUE, sub |-> s,
           chan |-> [ch EXCEPT ![s.tx].queue = IF s.kind = "Once" THEN << res >> ELSE Append(@, res)] ]
    ELSE [ok |-> FALSE, sub |-> s, chan |-> ch]

\* SubscriptionTx::deliver: the outcome, the subscription and the channels afterwards.
deliver(s, res, ch) ==
    IF s.kind = "Once"
    THEN IF ~s.frame_tx THEN [ok |-> FALSE, sub |-> s, chan |-> ch]
         ELSE IF ~ch[s.tx].rx_open THEN [ok |-> FALSE, sub |-> [s EXCEPT !.frame_tx = FALSE], chan |-> ch]
         ELSE [ ok |-> TRUE, sub |-> [s EXCEPT !.frame_tx = FALSE],
                chan |-> [ch EXCEPT ![s.tx].queue = Append(@, res)] ]
    ELSE IF ch[s.tx].rx_open /\ Len(ch[s.tx].queue) < ch[s.tx].cap
         THEN [ok |-> TRUE, sub |-> s, chan |-> [ch EXCEPT ![s.tx].queue = Append(@, res)]]
         ELSE [ok |-> FALSE, sub |-> s, chan |-> ch]

\* RouterInner::route_frame: subscriptions.retain_mut(..) from entry i on;
\* acc holds the entries retained so far and the channels.
RECURSIVE retain_mut(_, _, _, _)
retain_mut(subs, i, res, acc) ==
    IF i > Len(subs) THEN acc
    ELSE LET s == subs[i] IN
         IF ~is_open(s, acc.chan) THEN retain_mut(subs, i + 1, res, acc)
         ELSE IF ~SubscriptionTx_test(s, res)
              THEN retain_mut(subs, i + 1, res, [acc EXCEPT !.kept = Append(@, s)])
         ELSE LET d == deliver(s, clone_error_or_copy(res), acc.chan) IN
              IF d.ok
              THEN retain_mut(subs, i + 1, res, [kept |-> Append(acc.kept, d.sub), chan |-> d.chan])
              ELSE retain_mut(subs, i + 1, res, acc)

route_frame(subs, res, ch) == retain_mut(subs, 1, res, [kept |-> << >>, chan |-> ch])

RouterInit ==
    /\ wire \in Wires
    /\ nread = 0
    /\ subscriptions = << >>
    /\ routed = << >>
    /\ chan = [t \in Tasks |-> [queue |-> << >>, cap |-> 0, rx_open |-> FALSE]]
    /\ task = [t \in Tasks |-> IdleTask]
    /\ got = [t \in Tasks |-> << >>]

\* Some SubscriptionTx still holds a sender of task t's channel.
HasSender(subs, t) == \E i \in 1..Len(subs) : subs[i].tx = t /\ subs[i].frame_tx

\* Task t can register: the tasks are alike, so they register in order.
CanRegister(t) ==
    /\ task[t].mode = "none"
    /\ \A u \in Tasks : u < t => task[u].mode # "none"

\* Router::recv / recv_deadline up to the select loop: the one-shot
\* subscription is pushed.
RecvDeadline(t) ==
    /\ CanRegister(t)
    /\ \E filter \in RouterFilters :
          /\ subscriptions' = Append(subscriptions, SubscriptionOnceTx(filter, t))
          /\ task' = [task EXCEPT ![t] =
                 [ mode |-> "once", pc |-> "select", held |-> None, deadline |-> "pending",
                   filter |-> filter, registered |-> Len(routed) ]]
    /\ chan' = [chan EXCEPT ![t] = [queue |-> << >>, cap |-> 1, rx_open |-> TRUE]]
    /\ UNCHANGED << wire, nread, routed, got >>
    /\ UNCHANGED notRouter

\* Router::subscribe / subscribe_timeout / subscribe_deadline; the consumer
\* then calls Subscription::recv.  A subscription without a deadline is one
\* whose deadline never passes.
Subscribe(t) ==
    /\ CanRegister(t)
    /\ \E filter \in RouterFilters, queue_capacity \in QueueCapacities :
          /\ subscriptions' = Append(subscriptions, SubscriptionManyTx(filter, t))
          /\ task' = [task EXCEPT ![t] =
                 [ mode |-> "many", pc |-> "select", held |-> None, deadline |-> "pending",
                   filter |-> filter, registered |-> Len(routed) ]]
          /\ chan' = [chan EXCEPT ![t] = [queue |-> << >>, cap |-> queue_capacity, rx_open |-> TRUE]]
    /\ UNCHANGED << wire, nread, routed, got >>
    /\ UNCHANGED notRouter

\* select branch `frame = self.inner.socket.recv()`: the read completes.
SocketRecv(t) ==
    /\ task[t].pc = "select"
    /\ task[t].deadline # "expired"
    /\ nread < Len(wire)
    /\ nread' = nread + 1
    /\ task' = [task EXCEPT ![t].pc = "route", ![t].held = wire[nread + 1]]
    /\ UNCHANGED << wire, subscriptions, routed, chan, got >>
    /\ UNCHANGED notRouter

\* ... and its body: self.inner.route_frame(frame), under the mutex.
RouteFrame(t) ==
    /\ task[t].pc = "route"
    /\ LET r == route_frame(subscriptions, task[t].held, chan) IN
          /\ subscriptions' = r.kept
          /\ chan' = r.chan
    /\ routed' = Append(routed, task[t].held)
    /\ task' = [task EXCEPT ![t].pc = "select", ![t].held = None]
    /\ UNCHANGED << wire, nread, got >>
    /\ UNCHANGED notRouter

\* select branch on the delivery channel: recv(&mut frame_rx) of a one-shot
\* call, self.frame_rx.recv() of a streaming subscription; the call returns.
\* Once a closed channel is empty every later call returns UnexpectedEof too.
ChannelRecv(t) ==
    /\ task[t].pc = "select"
    /\ task[t].deadline # "expired"
    /\ LET q == chan[t].queue IN
       IF task[t].mode = "once"
       THEN /\ q # << >> \/ ~HasSender(subscriptions, t)
            /\ got' = [got EXCEPT ![t] = Append(@, IF q # << >> THEN q[1] ELSE Err("UnexpectedEof"))]
            /\ chan' = [chan EXCEPT ![t].queue = << >>, ![t].rx_open = FALSE]
            /\ task' = [task EXCEPT ![t].pc = "done"]
       ELSE /\ q # << >> \/ ~HasSender(subscriptions, t) \/ ~chan[t].rx_open
            /\ got' = [got EXCEPT ![t] = Append(@, IF q # << >> THEN q[1] ELSE Err("UnexpectedEof"))]
            /\ chan' = [chan EXCEPT ![t].queue = IF q # << >> THEN Tail(q) ELSE q]
            /\ task' = [task EXCEPT ![t].pc = IF q # << >> THEN "select" ELSE "done"]
    /\ UNCHANGED << wire, nread, subscriptions, routed >>
    /\ UNCHANGED notRouter

\* Time passes the deadline of task t's call or subscription.
DeadlinePasses(t) ==
    /\ task[t].deadline = "pending"
    /\ task[t].pc # "done"
    /\ task' = [task EXCEPT ![t].deadline = "passed"]
    /\ UNCHANGED << wire, nread, subscriptions, routed, chan, got >>
    /\ UNCHANGED notRouter

\* The deadline ends the call: TimedOut of Router::recv; Ok(None) of
\* Subscription::recv, which every later call repeats on entry.
TimedOut(t) ==
    /\ task[t].pc = "select"
    /\ task[t].deadline = "passed"
    /\ IF task[t].mode = "once"
       THEN /\ got' = [got EXCEPT ![t] = Append(@, Err("TimedOut"))]
            /\ chan' = [chan EXCEPT ![t].queue = << >>, ![t].rx_open = FALSE]
            /\ task' = [task EXCEPT ![t].pc = "done"]
       ELSE /\ got' = [got EXCEPT ![t] = Append(@, OkNone)]
            /\ chan' = chan
            /\ task' = [task EXCEPT ![t].deadline = "expired"]
    /\ UNCHANGED << wire, nread, subscriptions, routed >>
    /\ UNCHANGED notRouter

\* Subscription::cancel, between two calls of recv.
Cancel(t) ==
    /\ task[t].mode = "many"
    /\ task[t].pc = "select"
    /\ chan[t].rx_open
    /\ chan' = [chan EXCEPT ![t].rx_open = FALSE]
    /\ UNCHANGED << wire, nread, subscriptions, routed, task, got >>
    /\ UNCHANGED notRouter

\* The Subscription handle is dropped, and its receiver with it.
DropSubscription(t) ==
    /\ task[t].mode = "many"
    /\ task[t].pc = "select"
    /\ chan' = [chan EXCEPT ![t].queue = << >>, ![t].rx_open = FALSE]
    /\ task' = [task EXCEPT ![t].mode = "dropped", ![t].pc = "done"]
    /\ UNCHANGED << wire, nread, subscriptions, routed, got >>
    /\ UNCHANGED notRouter

RouterNext ==
    \E t \in Tasks :
        \/ RecvDeadline(t)
        \/ Subscribe(t)
        \/ SocketRecv(t)
        \/ RouteFrame(t)
        \/ ChannelRecv(t)
        \/ DeadlinePasses(t)
        \/ TimedOut(t)
        \/ Cancel(t)
        \/ DropSubscription(t)

RouterSpecInit == RouterInit /\ SdoParked /\ PdoParked /\ NmtParked /\ SyncParked /\ FilterParked /\ IdParked /\ FrameParked /\ FdParked

RouterSpec == RouterSpecInit /\ [][RouterNext]_vars

(***************************************************************************)
(* Properties of the router.  A filter accepts a frame when                *)
(* CanFilter::test returns true for it.                                    *)
(***************************************************************************)
\* The step dispatches a result.
Dispatches == routed' # routed

\* The result dispatched by the step.
Dispatched == routed'[Len(routed')]

HasEntry(subs, t) == \E i \in 1..Len(subs) : subs[i].tx = t

\* The subscription's channel can take a result: the receiver is there, a
\* one-shot sender has not been used, a bounded queue is not full.
Open(s) == chan[s.tx].rx_open /\ s.frame_tx

Room(s) == Len(chan[s.tx].queue) < chan[s.tx].cap

Accepts(s, res) == res.tag = "Ok" /\ CanFilter_test(s.filter, res.val)

\* C13: when a frame is dispatched, every registered open subscription whose
\* filter accepts it and whose channel has room gets it appended to its
\* channel exactly once, whatever happens to the other subscriptions; the
\* channels of the other subscriptions are left as they are.
C13_EveryMatchingSubscriptionReceives ==
    [][ (Dispatches /\ Dispatched.tag = "Ok") =>
            \A i \in 1..Len(subscriptions) :
                LET s == subscriptions[i] IN
                IF Open(s) /\ Accepts(s, Dispatched) /\ Room(s)
                THEN chan'[s.tx].queue = Append(chan[s.tx].queue, Dispatched)
                ELSE chan'[s.tx].queue = chan[s.tx].queue ]_vars

\* C13 witness: one frame sits in the channel of a streaming subscription
\* and in the channel of a one-shot subscription.
C13_Witness ==
    /\ task[1].mode = "many" /\ task[2].mode = "once"
    /\ chan[1].queue # << >>
    /\ chan[1].queue = chan[2].queue
    /\ chan[1].queue[1].tag = "Ok"

\* C14: when a receive error is dispatched, every open subscription gets the
\* error appended to its channel whatever its filter is; one whose queue is
\* full loses its sender instead, so that its consumer meets UnexpectedEof
\* after the queued frames.  A consumer that waits on an empty channel gets
\* the error.
C14_ErrorReachesEverySubscription ==
    [][ (Dispatches /\ Dispatched.tag = "Err") =>
            \A i \in 1..Len(subscriptions) :
                LET s == subscriptions[i] IN
                Open(s) =>
                    IF Room(s)
                    THEN chan'[s.tx].queue = Append(chan[s.tx].queue, Err(Dispatched.kind))
                    ELSE /\ chan[s.tx].queue # << >>
                         /\ ~HasSender(subscriptions', s.tx) ]_vars

\* C14 witness: a receive error was returned both by a streaming
\* subscription and by a one-shot call.
C14_Witness ==
    /\ task[1].mode = "many" /\ task[2].mode = "once"
    /\ got[2] = << Err("Other") >>
    /\ \E i \in 1..Len(got[1]) : got[1][i] = Err("Other")

\* The results dispatched since task t registered.
SinceRegistered(t) == SubSeq(routed, task[t].registered + 1, Len(routed))

\* The results a one-shot subscription of task t takes: frames its filter
\* accepts, and errors.
Takes(t, res) == res.tag = "Err" \/ CanFilter_test(task[t].filter, res.val)

\* C15: Router::recv returns the first frame its filter accepts among those
\* dispatched since it registered (or the error dispatched before any such
\* frame), TimedOut only once the deadline has passed, never a frame its
\* filter rejects; frames the filter rejects leave it registered and waiting.
C15_RecvReturnsFirstMatch ==
    \A t \in Tasks :
        task[t].mode = "once" =>
            LET d == SinceRegistered(t)
                taken == { i \in 1..Len(d) : Takes(t, d[i]) }
                first == CHOOSE i \in taken : \A j \in taken : i <= j
            IN  /\ Len(got[t]) <= 1
                /\ got[t] # << >> =>
                      \/ got[t][1] = Err("TimedOut") /\ task[t].deadline = "passed"
                      \/ /\ taken # {}
                         /\ got[t][1] = d[first]
                         /\ got[t][1].tag = "Ok" => CanFilter_test(task[t].filter, got[t][1].val)
                /\ (got[t] = << >> /\ task[t].pc # "done") =>
                      IF taken = {}
                      THEN chan[t].queue = << >> /\ HasSender(subscriptions, t)
                      ELSE chan[t].queue = << d[first] >>

\* C15 witness: a one-shot call returned a frame after a frame its filter
\* rejects had been dispatched to it.
C15_Witness ==
    \E t \in Tasks :
        /\ task[t].mode = "once"
        /\ got[t] # << >>
        /\ got[t][1].tag = "Ok"
        /\ LET d == SinceRegistered(t) IN
              d[1].tag = "Ok" /\ ~CanFilter_test(task[t].filter, d[1].val)

\* C16: once the receiver of a subscription is closed (cancel() or the
\* handle dropped), the next dispatch removes the subscription whether the
\* result matches its filter or not, and nothing is added to a closed
\* channel by any step.
C16_ClosedSubscriptionRemoved ==
    [][ /\ Dispatches =>
              \A i \in 1..Len(subscriptions) :
                  ~chan[subscriptions[i].tx].rx_open => ~HasEntry(subscriptions', subscriptions[i].tx)
        /\ \A t \in Tasks :
              (task[t].mode # "none" /\ ~chan[t].rx_open) =>
                  Len(chan'[t].queue) <= Len(chan[t].queue) ]_vars

\* C16 witness: a cancelled streaming subscription to which only frames its
\* filter rejects were dispatched is no longer registered.
C16_Witness ==
    \E t \in Tasks :
        /\ task[t].mode = "many"
        /\ ~chan[t].rx_open
        /\ ~HasEntry(subscriptions, t)
        /\ LET d == SinceRegistered(t) IN
              /\ d # << >>
              /\ \A i \in 1..Len(d) : d[i].tag = "Ok" /\ ~CanFilter_test(task[t].filter, d[i].val)

\* C17: when a dispatched frame is accepted by the filter of an open
\* streaming subscription whose queue is full, or reaches a one-shot
\* subscription that has fired, that dispatch removes the subscription and
\* leaves its queue as it is; a subscription that is not registered gets
\* nothing more.
C17_UndeliverableSubscriptionDropped ==
    [][ /\ (Dispatches /\ Dispatched.tag = "Ok") =>
              \A i \in 1..Len(subscriptions) :
                  LET s == subscriptions[i] IN
                  (\/ s.kind = "Many" /\ Open(s) /\ Accepts(s, Dispatched) /\ ~Room(s)
                   \/ s.kind = "Once" /\ ~s.frame_tx) =>
                      /\ ~HasEntry(subscriptions', s.tx)
                      /\ chan'[s.tx].queue = chan[s.tx].queue
        /\ \A t \in Tasks :
              (task[t].mode # "none" /\ ~HasEntry(subscriptions, t)) =>
                  /\ ~HasEntry(subscriptions', t)
                  /\ Len(chan'[t].queue) <= Len(chan[t].queue) ]_vars

\* C17 witness: a streaming subscription was dropped because its queue was
\* full; its receiver is open and the queue still holds the frame.
C17_Witness ==
    \E t \in Tasks :
        /\ task[t].mode = "many"
        /\ chan[t].rx_open
        /\ ~HasEntry(subscriptions, t)
        /\ Len(chan[t].queue) = chan[t].cap
        /\ chan[t].queue[1].tag = "Ok"

\* C18: a dispatch leaves no one-shot subscription that has fired and no
\* streaming subscription whose deadline has expired in the list, and routes
\* nothing to them.
C18_RemovedWhenFiredOrExpired ==
    [][ Dispatches =>
            \A i \in 1..Len(subscriptions) :
                LET s == subscriptions[i] IN
                (\/ s.kind = "Once" /\ ~s.frame_tx
                 \/ s.kind = "Many" /\ task[s.tx].deadline = "expired") =>
                    /\ ~HasEntry(subscriptions', s.tx)
                    /\ chan'[s.tx].queue = chan[s.tx].queue ]_vars

\* The one-shot half of C18: a one-shot subscription that has fired, or whose
\* call has timed out, is removed by the next dispatch and gets nothing more.
OneShotRemovedAfterFiring ==
    [][ Dispatches =>
            \A i \in 1..Len(subscriptions) :
                LET s == subscriptions[i] IN
                (s.kind = "Once" /\ (~s.frame_tx \/ task[s.tx].pc = "done")) =>
                    /\ ~HasEntry(subscriptions', s.tx)
                    /\ chan'[s.tx].queue = chan[s.tx].queue ]_vars

\* The position on the wire of a frame of Wires.
WirePosition(res) == res.val.data[1]

\* C19: the frames returned by the successive calls on a streaming
\* subscription are in the order in which the socket delivered them.
C19_FrameOrderPreserved ==
    \A t \in Tasks :
        task[t].mode \in { "many", "dropped" } =>
            \A i, j \in 1..Len(got[t]) :
                (i < j /\ got[t][i].tag = "Ok" /\ got[t][j].tag = "Ok") =>
                    WirePosition(got[t][i]) < WirePosition(got[t][j])

\* The results task t has been given: those its calls returned and those
\* waiting in its channel.
GivenTo(t) ==
    { got[t][i] : i \in 1..Len(got[t]) } \cup { chan[t].queue[i] : i \in 1..Len(chan[t].queue) }

\* Some subscription registered now accepts frame f.
AcceptedBySome(f) ==
    \E i \in 1..Len(subscriptions) : CanFilter_test(subscriptions[i].filter, f)

\* C39: the router does not buffer: a frame dispatched before a call
\* registered is never given to that call, a frame accepted by no
\* subscription at dispatch time reaches no channel, and a dispatch neither
\* adds a subscription nor changes the filter of one.
C39_NoBuffering ==
    /\ [](\A t \in Tasks : \A i \in 1..task[t].registered :
              routed[i].tag = "Ok" => routed[i] \notin GivenTo(t))
    /\ [][ Dispatches =>
              LET res == routed'[Len(routed')] IN
              /\ (res.tag = "Ok" /\ ~AcceptedBySome(res.val)) => chan' = chan
              /\ Len(subscriptions') <= Len(subscriptions)
              /\ \A j \in 1..Len(subscriptions') :
                    \E i \in 1..Len(subscriptions) :
                        /\ subscriptions'[j].tx = subscriptions[i].tx
                        /\ subscriptions'[j].kind = subscriptions[i].kind
                        /\ subscriptions'[j].filter = subscriptions[i].filter
         ]_vars

\* Task 1 dispatched the first frame, which its filter rejects; task 2
\* registered afterwards with a filter that accepts that frame, and its
\* call has ended without it.
C39_Witness ==
    /\ Len(routed) >= 1
    /\ routed[1].tag = "Ok"
    /\ ~CanFilter_test(task[1].filter, routed[1].val)
    /\ task[2].mode = "once"
    /\ task[2].registered >= 1
    /\ CanFilter_test(task[2].filter, routed[1].val)
    /\ task[2].pc = "done"
    /\ got[2] # << >>

\* What the claim says segment k (from 1) of payload d looks like, the toggle
\* bit apart: command specifier 0, n = 7 - chunk length, c on the last one,
\* the chunk followed by zeros.
SegmentAsClaimed(f, d, k) ==
    LET last == (Len(d) + 6) \div 7
        chunk_len == IF k < last THEN 7 ELSE Len(d) - 7 * (last - 1)
    IN  /\ f.id = 1536 + node_id /\ ~f.ext /\ ~f.rtr
        /\ Len(f.data) = 8
        /\ f.data[1] \div 32 = 0
        /\ (f.data[1] \div 2) % 8 = 7 - chunk_len
        /\ f.data[1] % 2 = (IF k = last THEN 1 ELSE 0)
        /\ \A j \in 1..7 :
              f.data[j + 1] = (IF j <= chunk_len THEN d[7 * (k - 1) + j] ELSE 0)

\* C22: a segmented download (len > 4) first sends the initiate frame with
\* len as little-endian u32; the segment frames sent so far are the first
\* chunks of the payload in order, each as the claim describes, never more
\* than ceil(len/7) and exactly that many when the call succeeds; and a
\* segment is only sent in the step that receives the acknowledgement of
\* what was sent before it (initiate: 0x60, segment: 0x20 with its toggle).
C22_SegmentedDownloadFrames ==
    /\ [](op = "download" /\ Len(dl_data) > 4 /\ sent # << >> =>
            LET segs == SegmentFrames(sent)
                n == Len(dl_data)
            IN  /\ sent[1].frame.data =
                       << 33, 8, 16, 0, n % 256, (n \div 256) % 256, 0, 0 >>
                /\ Len(segs) <= (n + 6) \div 7
                /\ \A k \in 1..Len(segs) : SegmentAsClaimed(segs[k].frame, dl_data, k)
                /\ result = Ok(0) => Len(segs) = (n + 6) \div 7)
    /\ [][(op = "download" /\ Len(SegmentFrames(sent')) > Len(SegmentFrames(sent))) =>
            /\ Len(SegmentFrames(sent')) = Len(SegmentFrames(sent)) + 1
            /\ rx # << >> /\ rx' = << >>
            /\ rx[1].id = 1408 + node_id /\ ~rx[1].rtr
            /\ Len(rx[1].data) = 8
            /\ LET prev == sent[Len(sent)] IN
               /\ prev.ok
               /\ rx[1].data[1] \div 32 = (IF Len(sent) = 1 THEN 3 ELSE 1)
               /\ Len(sent) > 1 =>
                     (rx[1].data[1] \div 16) % 2 = (prev.frame.data[1] \div 16) % 2]_vars

\* C22 witness: a 10-byte download completed with two segments.
C22_Witness ==
    /\ op = "download"
    /\ Len(dl_data) = 10
    /\ result = Ok(0)
    /\ Len(SegmentFrames(sent)) = 2

\* C23: sdo_download is expedited exactly for payloads of at most 4 bytes.
\* The first frame of a download has e and s set (byte 0 mod 4 = 3) iff
\* len <= 4; it is then the only frame of the call, with byte 0 =
\* 32 + 4 * (4 - len) + 3, the index 0x1008 little-endian, the subindex, the
\* payload and zeros; and the call returns Ok exactly when the response it
\* takes is an 8-byte frame with server command 3.
C23_ExpeditedDownload ==
    /\ [](op = "download" /\ sent # << >> =>
            LET n == Len(dl_data)
                f == sent[1].frame
            IN  /\ (n <= 4) <=> (f.data[1] % 4 = 3)
                /\ n <= 4 =>
                      /\ Len(sent) = 1
                      /\ f.id = 1536 + node_id /\ ~f.ext /\ ~f.rtr
                      /\ f.data = << 32 + 4 * (4 - n) + 3, 8, 16, 0 >>
                                  \o [j \in 1..4 |-> IF j <= n THEN dl_data[j] ELSE 0])
    /\ [][(op = "download" /\ Len(dl_data) <= 4 /\ pc # "done" /\ pc' = "done") =>
            (result' = Ok(0)) <=>
                (/\ rx # << >>
                 /\ rx[1].id = 1408 + node_id /\ ~rx[1].rtr
                 /\ Len(rx[1].data) = 8
                 /\ rx[1].data[1] \div 32 = 3)]_vars

\* C23 witness: a 2-byte download acknowledged by the server.
C23_Witness ==
    /\ op = "download"
    /\ Len(dl_data) = 2
    /\ result = Ok(0)

\* C24: the step that takes an initiate-upload response (8 bytes, server
\* command 2, any other bits of byte 0) classifies it by e and s alone.
\* e=1: the payload is data[4..8-n] with s=1 and data[4..8] with s=0; the
\* call ends there with no segment request sent, returning the payload's
\* length with the payload in the buffer unless the buffer is too small.
\* e=0,s=1: a segmented transfer of the length in bytes 4-7 (little-endian)
\* starts, unless the buffer is too small.  e=0,s=0: NoExpeditedOrSizeFlag.
C24_InitiateUploadClassified ==
    [][(/\ op = "upload" /\ pc = "initiate_upload"
        /\ rx # << >>
        /\ rx[1].id = 1408 + node_id /\ ~rx[1].ext /\ ~rx[1].rtr
        /\ Len(rx[1].data) = 8
        /\ rx[1].data[1] \div 32 = 2) =>
            LET d == rx[1].data
                e == (d[1] \div 2) % 2
                s == d[1] % 2
                n == (d[1] \div 4) % 4
                payload == IF s = 1 THEN SubSeq(d, 5, 8 - n) ELSE SubSeq(d, 5, 8)
                total == d[5] + 256 * d[6] + 65536 * d[7] + 16777216 * d[8]
            IN  CASE e = 1 ->
                       /\ pc' = "done"
                       /\ SegmentFrames(sent') = << >>
                       /\ result'.tag \in { "Ok", "BufferTooSmall" }
                       /\ result'.tag = "Ok" =>
                             /\ result' = Ok(Len(payload))
                             /\ buf'.data = payload
                             /\ sent' = sent
                       /\ result'.tag = "BufferTooSmall" <=>
                             (buf.fixed /\ buf.cap < Len(payload))
                  [] e = 0 /\ s = 1 ->
                       IF buf.fixed /\ buf.cap < total
                       THEN pc' = "done" /\ result'.tag = "BufferTooSmall"
                            /\ SegmentFrames(sent') = << >>
                       ELSE /\ len' = total
                            /\ Len(SegmentFrames(sent')) = 1
                            /\ pc' = "segment_upload" \/ result' = SendFailed
                  [] e = 0 /\ s = 0 ->
                       /\ pc' = "done"
                       /\ result' = NoExpeditedOrSizeFlag
                       /\ SegmentFrames(sent') = << >>]_vars

\* C24 witness: an expedited response with s=1, n=1 and the unused bit 4 set
\* completed the upload with its 3 bytes and only the initiate request sent.
C24_Witness ==
    /\ op = "upload"
    /\ result = Ok(3)
    /\ buf.data = << 39, 40, 41 >>
    /\ Len(sent) = 1

\* The call goes on with the frame at the head of the receive queue: the
\* frame leaves the queue and the state of the call changes.
TakesFrame ==
    /\ rx # << >>
    /\ rx' = << >>
    /\ << pc, sent, buf, len, total_len, toggle, chunk, result >>'
         # << pc, sent, buf, len, total_len, toggle, chunk, result >>

\* C34: the client takes a received frame as the SDO response it waits for
\* only if it is a standard-format data frame with the expected id; RTR
\* frames, frames with another id and extended-format frames with the same
\* numeric id are skipped.
C34_OnlyStandardDataFrames ==
    [][ TakesFrame =>
            /\ ~rx[1].ext
            /\ ~rx[1].rtr
            /\ rx[1].id = response_id(sdo, node_id)
      ]_vars

\* What holds: the frame taken is a data frame whose id has the value of
\* the expected id, in either format.
TakesDataFrameWithIdValue ==
    [][ TakesFrame => ~rx[1].rtr /\ rx[1].id = response_id(sdo, node_id) ]_vars

\* The multiplexer a server response echoes: bytes 1-2 index, byte 3 subindex.
EchoedObject(frame) ==
    [index |-> frame.data[2] + 256 * frame.data[3], subindex |-> frame.data[4]]

\* C35: sdo_upload goes on from the initiate response, with a value or
\* with the segments, only if the response echoes the requested object.  A
\* late response to an earlier upload of another object is not returned.
C35_ResponseOfAnotherObjectNotTaken ==
    [][ (/\ op = "upload"
         /\ pc = "initiate_upload"
         /\ TakesFrame
         /\ ~IsErr(result')) => EchoedObject(rx[1]) = object
      ]_vars

\* C36: a segmented upload ends after a number of segment round-trips
\* bounded by the advertised length, also when the server sends segments
\* with no payload (n = 7) and never sets the completion bit: the client
\* sends at most one segment request more than the bytes advertised.
C36_SegmentRequestsBounded ==
    op = "upload" => Len(SegmentFrames(sent)) <= len + 1

\* What holds: the bytes taken from the segments stay below the advertised
\* length until the last segment, whatever the number of round-trips.
UploadedBytesBounded ==
    (op = "upload" /\ pc = "segment_upload") => (total_len = 0 \/ total_len < len)

\* The abort-transfer frames the client has handed to the socket.
AbortFramesSent ==
    { sent[i].frame : i \in { j \in 1..Len(sent) :
                                Shr(sent[j].frame.data[1], 5) = ClientCommand.AbortTransfer } }

\* C38: the client's abort frame has the layout the client decodes: byte 0
\* is 0x80, bytes 1-2 the index little-endian, byte 3 the subindex, bytes
\* 4-7 the reason little-endian, so check_server_command on it yields
\* TransferAborted with the reason sent, GeneralError.
C38_AbortFrameLayout ==
    \A f \in AbortFramesSent :
        /\ f.data = << 128 >> \o u16_to_le_bytes(object.index) \o << object.subindex >>
                      \o u32_to_le_bytes(GeneralError)
        /\ check_server_command(f, ServerCommand.InitiateUpload)
             = TransferAborted(TRUE, GeneralError)

\* What holds of the abort frame: 8 bytes on the command id, byte 0 is 0x80,
\* byte 3 the subindex; index and reason are there with their bytes in
\* big-endian order.
AbortFrameBigEndian ==
    \A f \in AbortFramesSent :
        /\ f.id = command_id(sdo, node_id)
        /\ f.data = << 128 >> \o u16_to_be_bytes(object.index) \o << object.subindex >>
                      \o u32_to_be_bytes(GeneralError)

(***************************************************************************)
(* canopen-socket: nmt.rs, send_nmt_command on node_id.                    *)
(***************************************************************************)
\* enum NmtState
NmtState == [Initializing |-> 0, Stopped |-> 4, Operational |-> 5, PreOperational |-> 127]

\* enum NmtCommand
NmtCommand == [Start |-> 1, Stop |-> 2, GoToPreOperational |-> 128, Reset |-> 129,
               ResetCommunication |-> 130]

NmtCommands == { NmtCommand.Start, NmtCommand.Stop, NmtCommand.GoToPreOperational,
                 NmtCommand.Reset, NmtCommand.ResetCommunication }

\* NMT_COB_ID
NMT_COB_ID == 0

\* FUNCTION_HEARTBEAT = 0x700
FUNCTION_HEARTBEAT == 1792

\* heartbeat_id
heartbeat_id(node) == BitOr(FUNCTION_HEARTBEAT, node)

\* Variant of expected_state: every command is expected to end in Operational.
expected_state_operational(cmd) == NmtState.Operational

\* NmtCommand::expected_state
expected_state(cmd) ==
    CASE cmd = NmtCommand.Start -> NmtState.Operational
      [] cmd = NmtCommand.Stop -> NmtState.Stopped
      [] cmd = NmtCommand.GoToPreOperational -> NmtState.PreOperational
      [] cmd = NmtCommand.Reset -> NmtState.Initializing
      [] cmd = NmtCommand.ResetCommunication -> NmtState.Initializing

MalformedResponse == [tag |-> "MalformedResponse"]

UnexpectedState(expected, actual) ==
    [tag |-> "UnexpectedState", expected |-> expected, actual |-> actual]

\* NmtState::try_from(u8)
NmtState_try_from(b) ==
    IF b \in { NmtState.Initializing, NmtState.Stopped, NmtState.Operational,
               NmtState.PreOperational }
    THEN Ok(b) ELSE MalformedResponse

\* parse_heartbeat
parse_heartbeat(frame) ==
    IF Len(frame.data) # 1 THEN MalformedResponse
    ELSE NmtState_try_from(frame.data[1])

\* Variant of the receive predicate: every frame is returned.
nmt_recv_accepts_any(frame, can_id) == TRUE

\* The predicate of canopen-socket's recv_new_by_can_id.
nmt_recv_accepts(frame, can_id) == to_base(frame) = [ok |-> TRUE, id |-> can_id]

\* What send_nmt_command returns for the frame recv_new_by_can_id gave it.
nmt_result(cmd, frame) ==
    LET state == parse_heartbeat(frame) IN
    IF IsErr(state) THEN state
    ELSE IF state.val = expected_state(cmd) THEN Ok(0)
    ELSE UnexpectedState(expected_state(cmd), state.val)

\* Frames that can arrive while the call waits: heartbeats of the node with
\* every state, an unknown state byte, no byte and two bytes; a heartbeat of
\* another node; an RTR frame and an extended frame with the heartbeat's id.
NmtFrames ==
    { CanFrame_new(heartbeat_id(node_id), d) :
        d \in { << 0 >>, << 4 >>, << 5 >>, << 127 >>, << 1 >>, << >>, << 5, 0 >> } }
    \cup { CanFrame_new(heartbeat_id(node_id + 1), << 5 >>),
           [id |-> heartbeat_id(node_id), ext |-> FALSE, rtr |-> TRUE, data |-> << >>],
           [id |-> heartbeat_id(node_id), ext |-> TRUE, rtr |-> FALSE, data |-> << 5 >>] }

NmtInit ==
    /\ nmt_command \in NmtCommands
    /\ npc = "start"
    /\ nrx = << >>
    /\ nsent = << >>
    /\ nseen = << >>
    /\ nresult = None

\* self.socket.send(&command_frame).await.map_err(NmtError::SendFailed)?
NmtSend ==
    /\ npc = "start"
    /\ \E ok \in BOOLEAN :
          /\ nsent' = Append(nsent, Sent(CanFrame_new(NMT_COB_ID, << nmt_command, node_id >>), ok))
          /\ IF ok THEN npc' = "wait" /\ nresult' = nresult
                   ELSE npc' = "done" /\ nresult' = SendFailed
    /\ UNCHANGED << nmt_command, nrx, nseen >>
    /\ UNCHANGED notNmt

\* A frame or a receive error is queued on the socket; the socket is open
\* before the call, so this also happens before the command is sent.
NmtArrive ==
    /\ npc \in { "start", "wait" }
    /\ Len(nseen) + Len(nrx) < MaxHeartbeats
    /\ \E r \in { Ok(f) : f \in NmtFrames } \cup { Err("Other") } : nrx' = Append(nrx, r)
    /\ UNCHANGED << nmt_command, npc, nsent, nseen, nresult >>
    /\ UNCHANGED notNmt

\* recv_new_filtered: a frame the predicate rejects is dropped.
NmtRecvSkip ==
    /\ npc = "wait"
    /\ nrx # << >>
    /\ nrx[1].tag = "Ok"
    /\ ~nmt_recv_accepts(nrx[1].val, heartbeat_id(node_id))
    /\ nrx' = Tail(nrx)
    /\ nseen' = Append(nseen, nrx[1].val)
    /\ UNCHANGED << nmt_command, npc, nsent, nresult >>
    /\ UNCHANGED notNmt

\* recv_new_by_can_id returns a frame: parse_heartbeat and the comparison.
NmtRecvHeartbeat ==
    /\ npc = "wait"
    /\ nrx # << >>
    /\ nrx[1].tag = "Ok"
    /\ nmt_recv_accepts(nrx[1].val, heartbeat_id(node_id))
    /\ nrx' = Tail(nrx)
    /\ nseen' = Append(nseen, nrx[1].val)
    /\ npc' = "done"
    /\ nresult' = nmt_result(nmt_command, nrx[1].val)
    /\ UNCHANGED << nmt_command, nsent >>
    /\ UNCHANGED notNmt

\* self.socket.recv().await? fails: NmtError::RecvFailed.
NmtRecvError ==
    /\ npc = "wait"
    /\ nrx # << >>
    /\ nrx[1].tag = "Err"
    /\ nrx' = Tail(nrx)
    /\ npc' = "done"
    /\ nresult' = RecvFailed
    /\ UNCHANGED << nmt_command, nsent, nseen >>
    /\ UNCHANGED notNmt

\* tokio::time::timeout elapses with nothing to read: NmtError::Timeout.
NmtTimeout ==
    /\ npc = "wait"
    /\ nrx = << >>
    /\ npc' = "done"
    /\ nresult' = Timeout
    /\ UNCHANGED << nmt_command, nrx, nsent, nseen >>
    /\ UNCHANGED notNmt

NmtNext ==
    \/ NmtSend
    \/ NmtArrive
    \/ NmtRecvSkip
    \/ NmtRecvHeartbeat
    \/ NmtRecvError
    \/ NmtTimeout

NmtSpecInit == NmtInit /\ SdoParked /\ PdoParked /\ RouterParked /\ SyncParked /\ FilterParked /\ IdParked /\ FrameParked /\ FdParked

NmtSpec == NmtSpecInit /\ [][NmtNext]_vars

\* The state byte each command is expected to end in.
ExpectedStateByte ==
    [c \in NmtCommands |->
        CASE c = 1 -> 5
          [] c = 2 -> 4
          [] c = 128 -> 127
          [] c \in { 129, 130 } -> 0]

\* C20: send_nmt_command sends one frame with COB-ID 0 and payload
\* [command, node_id]; once that is sent it returns Ok exactly when the
\* heartbeat it received carries the one byte of the command's expected
\* state, MalformedResponse when the heartbeat is not one valid state byte,
\* UnexpectedState { expected, actual } when the byte is another state, and
\* Timeout when no heartbeat was received (RecvFailed after a socket error);
\* if the send fails it returns SendFailed and receives nothing.
C20_NmtCommandResult ==
    /\ Len(nsent) <= 1
    /\ npc # "start" =>
          /\ Len(nsent) = 1
          /\ nsent[1].frame = [id |-> 0, ext |-> FALSE, rtr |-> FALSE,
                               data |-> << nmt_command, node_id >>]
    /\ npc = "done" =>
          LET expected == ExpectedStateByte[nmt_command]
              heartbeats == { i \in 1..Len(nseen) : nseen[i].id = 1792 + node_id }
              hb == nseen[Len(nseen)]
          IN  IF ~nsent[1].ok THEN nresult = SendFailed /\ nseen = << >>
              ELSE IF nresult \in { Timeout, RecvFailed } THEN heartbeats = {}
              ELSE /\ heartbeats = { Len(nseen) }
                   /\ nresult = Ok(0) <=> hb.data = << expected >>
                   /\ nresult = MalformedResponse <=>
                         (Len(hb.data) # 1 \/ hb.data[1] \notin { 0, 4, 5, 127 })
                   /\ nresult.tag = "UnexpectedState" <=>
                         (Len(hb.data) = 1 /\ hb.data[1] \in { 0, 4, 5, 127 } \ { expected })
                   /\ nresult.tag = "UnexpectedState" =>
                         nresult = [tag |-> "UnexpectedState", expected |-> expected,
                                    actual |-> hb.data[1]]
                   /\ nresult.tag \in { "Ok", "MalformedResponse", "UnexpectedState" }

\* C20 witness: Start was answered by a heartbeat [0x7F] after a frame of
\* another node had been skipped.
C20_Witness ==
    /\ nmt_command = 1
    /\ Len(nseen) = 2
    /\ nresult = UnexpectedState(5, 127)

\* C21: the result of send_nmt_command is decided by the first frame with id
\* 0x700|node_id read after the command was sent: nothing is read before the
\* send, frames of other nodes are skipped and leave the call waiting, the
\* first heartbeat ends the call with the result its own payload gives, and
\* whatever is queued behind it is never read.
C21_FirstHeartbeatDecides ==
    LET hbs == { i \in 1..Len(nseen) : nseen[i].id = 1792 + node_id }
        expected == ExpectedStateByte[nmt_command]
    IN  /\ npc = "start" => nseen = << >>
        /\ npc = "wait" => hbs = {} /\ nresult = None
        /\ (npc = "done" /\ nresult \notin { SendFailed, RecvFailed, Timeout }) =>
              /\ hbs = { Len(nseen) }
              /\ LET d == nseen[Len(nseen)].data IN
                 nresult = IF Len(d) # 1 \/ d \notin { << 0 >>, << 4 >>, << 5 >>, << 127 >> }
                           THEN MalformedResponse
                           ELSE IF d[1] = expected THEN Ok(0)
                           ELSE [tag |-> "UnexpectedState", expected |-> expected,
                                 actual |-> d[1]]
        /\ (npc = "done" /\ nresult \in { SendFailed, RecvFailed, Timeout }) => hbs = {}

\* C21 witness: Start; a heartbeat [0x7F] decided UnexpectedState and a
\* heartbeat [5] queued behind it is left unread.
C21_Witness ==
    /\ nmt_command = 1
    /\ npc = "done"
    /\ Len(nseen) = 1
    /\ nseen[1].data = << 127 >>
    /\ nresult = UnexpectedState(5, 127)
    /\ nrx = << Ok(CanFrame_new(1797, << 5 >>)) >>

(***************************************************************************)
(* canopen-tokio: sync.rs, send_sync.                                      *)
(***************************************************************************)
\* SYNC_DEFAULT_COB_ID = 0x80
SYNC_DEFAULT_COB_ID == 128

Some(v) == [tag |-> "Some", val |-> v]

\* Option<NonZeroU8>: None or a u8 other than 0.
SyncCounters == { None } \cup { Some(c) : c \in 1..255 }

SyncInit ==
    /\ counter \in SyncCounters
    /\ sync_sent = << >>
    /\ sync_result = None

\* send_sync: build the frame and send it.
SendSync ==
    /\ sync_result = None
    /\ \E ok \in BOOLEAN :
          LET frame == IF counter.tag = "Some"
                       THEN CanFrame_new(SYNC_DEFAULT_COB_ID, << counter.val >>)
                       ELSE CanFrame_new(SYNC_DEFAULT_COB_ID, << >>)
          IN  /\ sync_sent' = Append(sync_sent, Sent(frame, ok))
              /\ sync_result' = (IF ok THEN Ok(0) ELSE Err("Other"))
    /\ UNCHANGED counter
    /\ UNCHANGED notSync

SyncNext == SendSync

SyncSpecInit == SyncInit /\ SdoParked /\ PdoParked /\ RouterParked /\ NmtParked /\ FilterParked /\ IdParked /\ FrameParked /\ FdParked

SyncSpec == SyncSpecInit /\ [][SyncNext]_vars

\* C28: send_sync hands one frame to the socket, a data frame with standard
\* id 0x80 whose payload is empty or the one counter byte, and the counter
\* byte on the bus is within 1..240.
C28_SyncFrame ==
    /\ Len(sync_sent) <= 1
    /\ sync_result # None =>
          /\ Len(sync_sent) = 1
          /\ LET f == sync_sent[1].frame IN
             /\ f.id = 128 /\ ~f.ext /\ ~f.rtr
             /\ Len(f.data) <= 1
             /\ Len(f.data) = 1 => f.data[1] \in 1..240

\* What holds of send_sync: one data frame with standard id 0x80, its
\* payload empty or the argument's byte, whatever that byte is.
SyncFrameCarriesArgument ==
    /\ Len(sync_sent) <= 1
    /\ sync_result # None =>
          /\ Len(sync_sent) = 1
          /\ sync_sent[1].frame =
                [id |-> 128, ext |-> FALSE, rtr |-> FALSE,
                 data |-> IF counter = None THEN << >> ELSE << counter.val >>]

(***************************************************************************)
(* can-socket: filter.rs / sys/linux.rs.  A CanFilter is constructed from  *)
(* an id, refined by builder calls, and asked to test frames.              *)
(***************************************************************************)
\* The ids filters are constructed from: standard 0 and 0x123, extended 0x1200.
FilterIds ==
    { [ext |-> FALSE, id |-> 0], [ext |-> FALSE, id |-> 291], [ext |-> TRUE, id |-> 4608] }

\* A builder call: its name, the mask of match_id_mask, the flag of inverted.
Refinement(call, mask, inv) == [op |-> call, mask |-> mask, inv |-> inv]

\* The builder calls that are tried; match_id_mask with 0xFFFF_FF00.
Refinements ==
    { Refinement(call, U32(0, 0), FALSE) :
        call \in { "match_id_value", "match_frame_format", "match_exact_id",
                 "match_rtr_only", "match_data_only" } }
    \cup { Refinement("match_id_mask", U32(65535, 65280), FALSE) }
    \cup { Refinement("inverted", U32(0, 0), inv) : inv \in BOOLEAN }

\* The filter a builder call returns.
Refined(f, r) ==
    CASE r.op = "match_id_value" -> match_id_value(f)
      [] r.op = "match_id_mask" -> match_id_mask(f, r.mask)
      [] r.op = "match_frame_format" -> match_frame_format(f)
      [] r.op = "match_exact_id" -> match_exact_id(f)
      [] r.op = "match_rtr_only" -> match_rtr_only(f)
      [] r.op = "match_data_only" -> match_data_only(f)
      [] r.op = "inverted" -> inverted(f, r.inv)

\* Frames given to test(): data and RTR frames with standard ids 0, 0x123,
\* 0x200 and 0x7FF and with extended ids 0x123, 0x11FF, 0x1200, 0x12FF,
\* 0x1300 and 0x1000_1200.
FilterFrames ==
    { [id |-> i, ext |-> FALSE, rtr |-> r, data |-> IF r THEN << >> ELSE << 1 >>] :
        i \in { 0, 291, 512, 2047 }, r \in BOOLEAN }
    \cup { [id |-> i, ext |-> TRUE, rtr |-> r, data |-> IF r THEN << >> ELSE << 1 >>] :
             i \in { 291, 4607, 4608, 4863, 4864, 268440064 }, r \in BOOLEAN }

FilterInit ==
    /\ built \in { [id |-> i, ops |-> << >>] : i \in FilterIds }
    /\ can_filter = CanFilter_new(built.id)
    /\ tested = None

\* One builder call on the filter.
Refine ==
    /\ Len(built.ops) < MaxRefinements
    /\ \E r \in Refinements :
          /\ built' = [built EXCEPT !.ops = Append(@, r)]
          /\ can_filter' = Refined(can_filter, r)
    /\ tested' = None
    /\ UNCHANGED notFilter

\* filter.test(&frame)
Test ==
    /\ \E f \in FilterFrames :
          tested' = [tag |-> "Some", frame |-> f, accepted |-> CanFilter_test(can_filter, f)]
    /\ UNCHANGED << built, can_filter >>
    /\ UNCHANGED notFilter

FilterNext ==
    \/ Refine
    \/ Test

FilterSpecInit == FilterInit /\ SdoParked /\ PdoParked /\ RouterParked /\ NmtParked /\ SyncParked /\ IdParked /\ FrameParked /\ FdParked

FilterSpec == FilterSpecInit /\ [][FilterNext]_vars

\* C29: a filter constructed from any id with no refinement has mask 0 and
\* its test() accepts every frame.
C29_FreshFilterAcceptsAll ==
    built.ops = << >> =>
        /\ can_filter.can_mask = U32(0, 0)
        /\ tested # None => tested.accepted

\* The part that holds: a filter with no refinement has mask 0, its id, and
\* is not inverted.
FreshFilterHasMaskZero ==
    built.ops = << >> =>
        /\ can_filter.can_mask = U32(0, 0)
        /\ can_filter.can_id = U32(0, built.id.id)

OrderedIds ==
    { [ext |-> FALSE, id |-> i] : i \in { 0, 5, 2047 } }
    \cup { [ext |-> TRUE, id |-> i] : i \in { 0, 5, 2047, 2048, 536870911 } }

\* CanId::as_u32: to_extended().as_u32()
CanId_as_u32(a) == a.id

\* Ord of two integers.
IntCmp(x, y) == IF x < y THEN "Less" ELSE IF x = y THEN "Equal" ELSE "Greater"

\* #[derive(Ord, PartialOrd)] on enum CanId: the variants compare in the
\* order of their declaration, Standard before Extended; two values of the
\* same variant compare by their field.
CanId_cmp(a, b) ==
    IF a.ext = b.ext THEN IntCmp(a.id, b.id)
    ELSE IF ~a.ext THEN "Less" ELSE "Greater"

\* #[derive(Eq, PartialEq)] on enum CanId: same variant and same field.
CanId_eq(a, b) == a.ext = b.ext /\ a.id = b.id

IdInit ==
    /\ lhs \in OrderedIds
    /\ rhs \in OrderedIds
    /\ ordering = None

\* lhs.cmp(&rhs) and lhs == rhs
Compare ==
    /\ ordering = None
    /\ ordering' = [tag |-> "Some", cmp |-> CanId_cmp(lhs, rhs), eq |-> CanId_eq(lhs, rhs)]
    /\ UNCHANGED << lhs, rhs >>
    /\ UNCHANGED notId

IdNext == Compare

IdSpecInit == IdInit /\ SdoParked /\ PdoParked /\ RouterParked /\ NmtParked /\ SyncParked /\ FilterParked /\ FrameParked /\ FdParked

IdSpec == IdSpecInit /\ [][IdNext]_vars

\* C31: a < b whenever a.as_u32() < b.as_u32(), for ids of either variant,
\* and a Standard and an Extended id of the same value are never equal.
C31_OrderedByNumericValue ==
    ordering # None =>
        /\ CanId_as_u32(lhs) < CanId_as_u32(rhs) => ordering.cmp = "Less"
        /\ (lhs.ext # rhs.ext /\ CanId_as_u32(lhs) = CanId_as_u32(rhs)) => ~ordering.eq

\* What holds of the derived order: ids of the same variant compare by
\* value, a Standard id is below every Extended id, and ids of different
\* variants are never equal.
DerivedOrderOfCanId ==
    ordering # None =>
        /\ lhs.ext = rhs.ext => ordering.cmp = IntCmp(CanId_as_u32(lhs), CanId_as_u32(rhs))
        /\ (~lhs.ext /\ rhs.ext) => ordering.cmp = "Less"
        /\ lhs.ext # rhs.ext => ~ordering.eq
        /\ ordering.eq <=> ordering.cmp = "Equal"

(***************************************************************************)
(* can-socket: frame.rs / sys/linux.rs.  The data length code of a data    *)
(* frame.  The frame is the kernel's struct can_frame: can_dlc is the      *)
(* number of payload bytes, len8_dlc the raw code when it is above 8, and  *)
(* data the eight bytes of the payload array.                              *)
(***************************************************************************)
\* The payloads frames are constructed with.
FramePayloads == { << >>, << 1, 2, 3 >>, << 1, 2, 3, 4, 5, 6, 7, 8 >> }

\* The data length codes that are passed: 0..17 and 255.
DataLengthCodes == 0..17 \cup { 255 }

\* sys CanFrame::new: the struct is zeroed, can_dlc is the length of the
\* data, the data is copied to the front of the array.
sys_CanFrame_new(bytes) ==
    [ can_dlc |-> Len(bytes), len8_dlc |-> 0,
      data |-> [i \in 1..8 |-> IF i <= Len(bytes) THEN bytes[i] ELSE 0] ]

\* Variant of sys_set_data_length_code: the bytes behind can_dlc are kept.
sys_set_data_length_code_keep(f, d) ==
    IF d > 15 THEN [ok |-> FALSE, frame |-> f]
    ELSE [ ok |-> TRUE,
           frame |-> [ can_dlc |-> Min(d, 8), len8_dlc |-> IF d > 8 THEN d ELSE 0,
                       data |-> f.data ] ]

\* sys CanFrame::set_data_length_code: Err(()) above 15; else can_dlc is
\* dlc.clamp(0, 8), len8_dlc is dlc if above 8 and 0 otherwise, and
\* data[can_dlc..] is filled with 0.
sys_set_data_length_code(f, d) ==
    IF d > 15 THEN [ok |-> FALSE, frame |-> f]
    ELSE LET can_dlc == Min(d, 8)
         IN  [ ok |-> TRUE,
               frame |-> [ can_dlc |-> can_dlc, len8_dlc |-> IF d > 8 THEN d ELSE 0,
                           data |-> [i \in 1..8 |-> IF i > can_dlc THEN 0 ELSE f.data[i]] ] ]

\* sys CanFrame::data_length_code
data_length_code(f) ==
    IF f.can_dlc = 8 /\ f.len8_dlc > 8 THEN f.len8_dlc ELSE f.can_dlc

\* sys CanFrame::data of a data frame: the first can_dlc bytes of the array.
frame_data(f) == SubSeq(f.data, 1, f.can_dlc)

\* error::InvalidDataLengthCode { value }
InvalidDataLengthCode(d) == [tag |-> "Err", kind |-> "InvalidDataLengthCode", value |-> d]

FrameInit ==
    /\ can_frame \in { sys_CanFrame_new(b) : b \in FramePayloads }
    /\ dlc_result = None

\* frame.set_data_length_code(d)
SetDataLengthCode ==
    /\ \E d \in DataLengthCodes :
          LET r == sys_set_data_length_code(can_frame, d)
          IN  /\ can_frame' = r.frame
              /\ dlc_result' = [ dlc |-> d, call |-> "set",
                                 res |-> IF r.ok THEN [tag |-> "Ok"] ELSE InvalidDataLengthCode(d) ]
    /\ UNCHANGED notFrame

\* frame = frame.with_data_length_code(d)?: the copy replaces the frame when
\* the call returns Ok, and the frame is kept when it returns the error.
WithDataLengthCode ==
    /\ \E d \in DataLengthCodes :
          LET r == sys_set_data_length_code(can_frame, d)
          IN  /\ can_frame' = IF r.ok THEN r.frame ELSE can_frame
              /\ dlc_result' = [ dlc |-> d, call |-> "with",
                                 res |-> IF r.ok THEN [tag |-> "Ok"] ELSE InvalidDataLengthCode(d) ]
    /\ UNCHANGED notFrame

FrameNext ==
    \/ SetDataLengthCode
    \/ WithDataLengthCode

FrameSpecInit == FrameInit /\ SdoParked /\ PdoParked /\ RouterParked /\ NmtParked /\ SyncParked /\ FilterParked /\ IdParked /\ FdParked

FrameSpec == FrameSpecInit /\ [][FrameNext]_vars

\* C32: set_data_length_code(d) / with_data_length_code(d) above 15 returns
\* InvalidDataLengthCode and leaves the frame unchanged; for d in 0..=15
\* data_length_code() returns d afterwards, the payload has min(d, 8) bytes,
\* the bytes that become visible read 0, and the payload never has more
\* than 8 bytes.
C32_DataLengthCode ==
    /\ [](can_frame # None => Len(frame_data(can_frame)) <= 8)
    /\ [][ LET d == dlc_result'.dlc
           IN  /\ d > 15 =>
                     /\ dlc_result'.res = InvalidDataLengthCode(d)
                     /\ can_frame' = can_frame
               /\ d <= 15 =>
                     /\ dlc_result'.res = [tag |-> "Ok"]
                     /\ data_length_code(can_frame') = d
                     /\ Len(frame_data(can_frame')) = Min(d, 8)
                     /\ \A i \in 1..Len(frame_data(can_frame')) :
                           frame_data(can_frame')[i] =
                               IF i <= Len(frame_data(can_frame)) THEN frame_data(can_frame)[i] ELSE 0
         ]_vars

\* A frame of 8 bytes was cut to 3 and then given code 12: it has 8 bytes,
\* the last five are 0, and the code reads 12.
C32_Witness ==
    /\ dlc_result # None
    /\ dlc_result.dlc = 12
    /\ data_length_code(can_frame) = 12
    /\ frame_data(can_frame) = << 1, 2, 3, 0, 0, 0, 0, 0 >>

(***************************************************************************)
(* can-socket: socket.rs / sys/linux.rs.  The blocking mode of a socket.   *)
(* The file status flags are the set of the names of the bits that are     *)
(* set: flags | X is the union with {X}, flags & !X the difference.        *)
(***************************************************************************)
\* The status flags F_SETFL can change, next to O_NONBLOCK.
OtherStatusFlags == { "O_APPEND", "O_ASYNC", "O_DIRECT", "O_NOATIME" }

\* The flags that set_nonblocking computes from those it read:
\*   true => flags | O_NONBLOCK, false => flags & !O_NONBLOCK
nonblocking_flags(flags, non_blocking) ==
    IF non_blocking THEN flags \cup { "O_NONBLOCK" } ELSE flags \ { "O_NONBLOCK" }

\* The third argument of fcntl(fd, F_SETFL, flags | libc::O_NONBLOCK)
setfl_argument(flags) == flags \cup { "O_NONBLOCK" }

\* A socket as Socket::new leaves it (blocking or SOCK_NONBLOCK), with any
\* of the other flags set by earlier fcntl calls.
FdInit ==
    /\ status_flags \in { { "O_RDWR" } \cup x : x \in SUBSET (OtherStatusFlags \cup { "O_NONBLOCK" }) }
    /\ nb_result = None

\* socket.set_nonblocking(b): F_GETFL, then F_SETFL.
SetNonblocking ==
    /\ \E b \in BOOLEAN :
          LET flags == nonblocking_flags(status_flags, b)
          IN  /\ status_flags' = setfl_argument(flags)
              /\ nb_result' = [non_blocking |-> b, res |-> [tag |-> "Ok"]]
    /\ UNCHANGED notFd

\* socket.set_nonblocking(b) where fcntl fails: check_int returns the error
\* and the flags stay as they are.
SetNonblockingFails ==
    /\ \E b \in BOOLEAN :
          nb_result' = [non_blocking |-> b, res |-> [tag |-> "Err", kind |-> "Os"]]
    /\ UNCHANGED status_flags
    /\ UNCHANGED notFd

FdNext ==
    \/ SetNonblocking
    \/ SetNonblockingFails

FdSpecInit == FdInit /\ SdoParked /\ PdoParked /\ RouterParked /\ NmtParked /\ SyncParked /\ FilterParked /\ IdParked /\ FrameParked

FdSpec == FdSpecInit /\ [][FdNext]_vars

\* C33: after set_nonblocking(b) has returned Ok, O_NONBLOCK is set exactly
\* if b is true, and every other status flag is as it was.
C33_SetNonblocking ==
    [][ nb_result'.res.tag = "Ok" =>
            /\ ("O_NONBLOCK" \in status_flags') <=> nb_result'.non_blocking
            /\ status_flags' \ { "O_NONBLOCK" } = status_flags \ { "O_NONBLOCK" }
      ]_vars

\* What holds of set_nonblocking: O_NONBLOCK is set after every successful
\* call, the other flags are as they were, and a failed call changes nothing.
SetNonblockingAlwaysSets ==
    [][ /\ nb_result'.res.tag = "Ok" => "O_NONBLOCK" \in status_flags'
        /\ nb_result'.res.tag = "Err" => status_flags' = status_flags
        /\ status_flags' \ { "O_NONBLOCK" } = status_flags \ { "O_NONBLOCK" }
      ]_vars

====
